---- MODULE Spec2Model ----
(***************************************************************************)
(* A model of the Polkadot community analyzer                              *)
(* (src/polkadot_community_analyzer.py): the collections the analyzer      *)
(* object holds, the fetch handlers that fill them and analyze() with the  *)
(* rankings it derives.                                                    *)
(*                                                                         *)
(* Numbers.  Python computes the heat score in floating point.  Here time  *)
(* is counted in ticks (TicksPerDay ticks to a day) and every fraction is  *)
(* kept as an integer numerator over a fixed denominator:                  *)
(*   recency_boost = RecencyNum / RecencyDen,  RecencyDen = 30*TicksPerDay *)
(*   heat_score    = HeatNum    / HeatDen,     HeatDen    = 10*RecencyDen  *)
(* so comparisons of scores are exact (no floating-point rounding).        *)
(*                                                                         *)
(* Text.  A string is a sequence of one-character strings.                 *)
(*                                                                         *)
(* JSON.  A field of a fetched record is a tagged value [kind, v]; kind is *)
(* "absent" (no such key), "null", "int", "str" (v: characters), "iso" (a  *)
(* string that datetime.fromisoformat accepts, v: its time in ticks) or    *)
(* "badstr" (a non-empty string that fromisoformat rejects), or "list".    *)
(* Timestamps are UTC strings (suffix "Z"), as the forum sends them.       *)
(*                                                                         *)
(* Runs.  SpecRuns follows run_forum_analysis() of                         *)
(* src/polkadot_governance_integration.py, which keeps one analyzer object *)
(* for all its runs.                                                       *)
(*                                                                         *)
(* Other programs of the repository.  SpecReport follows                   *)
(* generate_integrated_report() of the integration object, SpecMailer the  *)
(* subscribers table of src/polkadot_newsletter_mailer.py, SpecCollect     *)
(* collect_data() request by request, SpecFetch fetch_topic_details() on   *)
(* responses with posts that have no content, and SpecDigest               *)
(* run_full_process() of src/polkadot_community_digest.py.                 *)
(***************************************************************************)
EXTENDS Integers, Sequences, FiniteSets, TLC

VARIABLES
    topics,         \* self.topics: list of topic records, in arrival order
    posts,          \* self.posts: list of post records, in arrival order
    user_activity,  \* self.user_activity: ordered dict username -> post count
    mentions,       \* self.mentions: ordered dict username -> mention count
    keywords,       \* self.keywords: ordered dict token -> occurrence count
    tag_counts,     \* self.tag_counts: ordered dict tag -> occurrence count
    calls,          \* number of fetch calls made so far
    ret,            \* the most recent call and what it returned (or raised)
    probe,          \* inputs and outputs of a direct evaluation of the recency factor
    shard,          \* a batch of posts shared out between this analyzer and a second, fresh one
    runs,           \* what each run_forum_analysis() call was given and returned
    integrated,     \* the last generate_integrated_report() call: its arguments and what it wrote
    subscribers,    \* the rows of the subscribers table of the store, and the calls made on it
    loop,           \* collect_data() in progress: its position, counts and requests
    stages          \* run_full_process() in progress: its position and the stages run

counters == <<user_activity, mentions, keywords, tag_counts>>

side == <<integrated, subscribers, loop, stages>>

aux == <<probe, shard, runs, side>>

vars == <<topics, posts, counters, calls, ret, aux>>

----------------------------------------------------------------------------
(* Bounds of the model *)

MaxCalls == 3
TicksPerDay == 2
BulkLen == 52
PermLimit == 2
MaxProbeAgeDays == 32
MaxProbeFutureDays == 2
BatchLen == 3
MaxRuns == 2
MaxStoreCalls == 3
MaxProcessRuns == 2

(* Program constants *)

HotTopicsLimit == 50
ActiveUsersLimit == 50
InfluentialUsersLimit == 50
RecencyWindowDays == 30
MentionWeight == 3
TrendingKeywordsLimit == 100
PopularTagsLimit == 50
MaxCategories == 15
MaxTopicsPerCategory == 20
MaxTopicsDetails == 100

RecencyDen == RecencyWindowDays * TicksPerDay
HeatDen == 10 * RecencyDen

Now0 == 1000 * TicksPerDay
NowValues == {Now0, Now0 + 1}

Min(a, b) == IF a <= b THEN a ELSE b
Max(a, b) == IF a >= b THEN a ELSE b

----------------------------------------------------------------------------
(* JSON values *)

JAbsent == [kind |-> "absent", v |-> 0]
JNull == [kind |-> "null", v |-> 0]
JInt(n) == [kind |-> "int", v |-> n]
JIso(t) == [kind |-> "iso", v |-> t]
JBadStr == [kind |-> "badstr", v |-> 0]
JEmptyStr == [kind |-> "str", v |-> << >>]
JStr(s) == [kind |-> "str", v |-> s]

\* Python truthiness of a JSON value: None, 0, "" are falsy.
Truthy(j) ==
    CASE j.kind \in {"absent", "null"} -> FALSE
      [] j.kind = "int" -> j.v # 0
      [] j.kind = "str" -> j.v # << >>
      [] OTHER -> TRUE

\* dict.get(key, default) for a numeric field: the default replaces only a
\* missing key; an explicit null stays None.
GetNum(j, default) == IF j.kind = "absent" THEN JInt(default) ELSE j

Topic(id, views, posts_count, pinned, last_posted_at) ==
    [id |-> id, views |-> views, posts_count |-> posts_count,
     pinned |-> pinned, last_posted_at |-> last_posted_at]

----------------------------------------------------------------------------
(* Scoring: _identify_hot_topics *)

\* A variant that skips no topic.
IsPinnedNever(topic) == FALSE

\* topic.get("pinned", False) in a condition; pinned is "true", "false",
\* "null" or "absent".
IsPinned(topic) == topic.pinned = "true"

\* Variants: without the max, and with the floor at one tick instead of one
\* day.
RecencyNoFloor(age) == RecencyWindowDays * TicksPerDay - age
RecencyUnscaledFloor(age) == Max(1, RecencyWindowDays * TicksPerDay - age)

\* max(1, 30 - days_since_last_post) / 30 with days = age / TicksPerDay,
\* as a numerator over RecencyDen.
RecencyBoostNum(age) == Max(TicksPerDay, RecencyWindowDays * TicksPerDay - age)

\* The default "middle value" 0.5 over RecencyDen.
DefaultRecencyNum == RecencyDen \div 2

\* The try block of lines 377-386: "raise" stands for an exception that the
\* except clause (ValueError, TypeError) does not catch.
LastPostedOutcome(lp) ==
    CASE ~Truthy(lp) -> "default"
      [] lp.kind = "iso" -> "parsed"
      [] lp.kind = "badstr" -> "default"    \* fromisoformat: ValueError, caught
      [] OTHER -> "raise"                   \* no .replace: AttributeError

RecencyNum(topic, now) ==
    IF LastPostedOutcome(topic.last_posted_at) = "parsed"
    THEN RecencyBoostNum(now - topic.last_posted_at.v)
    ELSE DefaultRecencyNum

\* A variant that leaves the recency out of the third term.
HeatNumFlatRecency(views, posts_count, recencyNum) ==
    3 * RecencyDen * views + 25 * RecencyDen * posts_count
    + 2 * posts_count * RecencyDen

\* heat_score * HeatDen:
\*   views*0.3 + posts_count*5*0.5 + posts_count*recency_boost*0.2
HeatNum(views, posts_count, recencyNum) ==
    3 * RecencyDen * views + 25 * RecencyDen * posts_count
    + 2 * posts_count * recencyNum

\* The exception, if any, that scoring this topic raises.
TopicError(topic) ==
    IF LastPostedOutcome(topic.last_posted_at) = "raise" THEN "AttributeError"
    ELSE IF GetNum(topic.views, 0).kind # "int"
            \/ GetNum(topic.posts_count, 0).kind # "int" THEN "TypeError"
    ELSE "none"

HotEntry(topic, now) ==
    LET views == GetNum(topic.views, 0).v
        posts_count == GetNum(topic.posts_count, 0).v
    IN  [id |-> topic.id, views |-> views, posts_count |-> posts_count,
         last_posted_at |-> topic.last_posted_at,
         heat_score |-> HeatNum(views, posts_count, RecencyNum(topic, now))]

\* A variant that puts e before the elements of equal key.
InsertDescUnstable(sorted, e) ==
    LET p == Cardinality({k \in DOMAIN sorted : sorted[k].key > e.key})
    IN  SubSeq(sorted, 1, p) \o <<e>> \o SubSeq(sorted, p + 1, Len(sorted))

\* list.sort(key=..., reverse=True) over a list of [key, val] pairs: stable,
\* descending.  One step of it: e goes after every element whose key is >=
\* its own.
InsertDesc(sorted, e) ==
    LET p == Cardinality({k \in DOMAIN sorted : sorted[k].key >= e.key})
    IN  SubSeq(sorted, 1, p) \o <<e>> \o SubSeq(sorted, p + 1, Len(sorted))

\* The elements s[lo..hi] inserted one by one, in list order, into acc.  (The
\* range is walked by halves, and the first half is worked out before the
\* second starts, which keeps the evaluation shallow; the order of the
\* insertions is that of the list.)
RECURSIVE SortDescRange(_, _, _, _)
SortDescRange(acc, s, lo, hi) ==
    IF lo > hi THEN acc
    ELSE IF lo = hi THEN InsertDesc(acc, s[lo])
    ELSE LET mid == (lo + hi) \div 2
             first == SortDescRange(acc, s, lo, mid)
         IN  IF Len(first) > 0 THEN SortDescRange(first, s, mid + 1, hi)
             ELSE SortDescRange(<< >>, s, mid + 1, hi)

\* The sorted list itself (the keys dropped).
SortDesc(s) ==
    LET sorted == SortDescRange(<< >>, s, 1, Len(s))
    IN  [i \in DOMAIN sorted |-> sorted[i].val]

\* s[:n]
Head_n(s, n) == SubSeq(s, 1, Min(n, Len(s)))

NotPinned(topic) == ~IsPinned(topic)

\* The exception _identify_hot_topics raises: that of the first topic, in
\* list order, whose scoring fails.
HotTopicsError ==
    LET bad == {i \in DOMAIN topics :
                   NotPinned(topics[i]) /\ TopicError(topics[i]) # "none"}
    IN  IF bad = {} THEN "none"
        ELSE TopicError(topics[CHOOSE i \in bad : \A j \in bad : i <= j])

IdentifyHotTopics(now) ==
    LET kept == SelectSeq(topics, NotPinned)
        scored == [i \in DOMAIN kept |->
                      LET e == HotEntry(kept[i], now)
                      IN  [key |-> e.heat_score, val |-> e]]
    IN  Head_n(SortDesc(scored), HotTopicsLimit)

----------------------------------------------------------------------------
(* Ordered dictionaries (Counter, defaultdict(int)): a list of [key, count] *)
(* entries in insertion order                                               *)

Keys(c) == [i \in DOMAIN c |-> c[i].key]

KeySet(c) == {c[i].key : i \in DOMAIN c}

\* c.get(k, 0)
Count(c, k) ==
    IF k \in KeySet(c)
    THEN c[CHOOSE i \in DOMAIN c : c[i].key = k].count
    ELSE 0

\* A variant that stores 1 instead of adding 1.
SetOne(c, k) ==
    IF k \in KeySet(c)
    THEN [i \in DOMAIN c |->
             IF c[i].key = k THEN [c[i] EXCEPT !.count = 1] ELSE c[i]]
    ELSE Append(c, [key |-> k, count |-> 1])

\* c[k] += 1
Inc(c, k) ==
    IF k \in KeySet(c)
    THEN [i \in DOMAIN c |->
             IF c[i].key = k THEN [c[i] EXCEPT !.count = @ + 1] ELSE c[i]]
    ELSE Append(c, [key |-> k, count |-> 1])

----------------------------------------------------------------------------
(* Text signal extraction: analyze_post_content *)

Letters ==
    {"a", "b", "c", "d", "e", "f", "g", "h", "i", "j", "k", "l", "m", "n",
     "o", "p", "q", "r", "s", "t", "u", "v", "w", "x", "y", "z"}
DigitChars == <<"0", "1", "2", "3", "4", "5", "6", "7", "8", "9">>

LowerCase ==
    <<"a", "b", "c", "d", "e", "f", "g", "h", "i", "j", "k", "l", "m", "n",
      "o", "p", "q", "r", "s", "t", "u", "v", "w", "x", "y", "z">>
UpperCase ==
    <<"A", "B", "C", "D", "E", "F", "G", "H", "I", "J", "K", "L", "M", "N",
      "O", "P", "Q", "R", "S", "T", "U", "V", "W", "X", "Y", "Z">>

\* \w
WordChars ==
    Letters \cup {UpperCase[i] : i \in DOMAIN UpperCase}
    \cup {DigitChars[i] : i \in DOMAIN DigitChars} \cup {"_"}

\* \s
Spaces == {" ", "\t", "\n"}

\* The index of the ">" that closes a match of <[^>]+> starting at s[i] = "<",
\* or 0 when there is no match there: the first ">" after i, with at least
\* one character in between.
TagEnd(s, i) ==
    LET closes == {j \in (i + 1)..Len(s) : s[j] = ">"}
    IN  IF closes = {} THEN 0
        ELSE LET j == CHOOSE c \in closes : \A d \in closes : c <= d
             IN  IF j >= i + 2 THEN j ELSE 0

\* re.sub(r'<[^>]+>', ' ', content), scanning from position i.
RECURSIVE StripTagsFrom(_, _)
StripTagsFrom(s, i) ==
    IF i > Len(s) THEN << >>
    ELSE IF s[i] = "<" /\ TagEnd(s, i) # 0
         THEN <<" ">> \o StripTagsFrom(s, TagEnd(s, i) + 1)
         ELSE <<s[i]>> \o StripTagsFrom(s, i + 1)

\* A variant that leaves the tags in the text.
KeepTags(s) == s

StripTags(s) == StripTagsFrom(s, 1)

\* The last index of the run of word characters that starts at i.
WordRunEnd(s, i) ==
    LET stops == {j \in i..Len(s) : s[j] \notin WordChars} \cup {Len(s) + 1}
    IN  (CHOOSE e \in stops : \A f \in stops : e <= f) - 1

\* re.findall(r'@(\w+)', clean_content), scanning from position i.
RECURSIVE FindMentionsFrom(_, _)
FindMentionsFrom(s, i) ==
    IF i > Len(s) THEN << >>
    ELSE IF s[i] = "@" /\ i < Len(s) /\ s[i + 1] \in WordChars
         THEN <<SubSeq(s, i + 1, WordRunEnd(s, i + 1))>>
              \o FindMentionsFrom(s, WordRunEnd(s, i + 1) + 1)
         ELSE FindMentionsFrom(s, i + 1)

FindMentions(s) == FindMentionsFrom(s, 1)

\* c[k] += 1 for the keys ks[lo..hi], in list order (the range walked by
\* halves, as in SortDescRange).
RECURSIVE IncRange(_, _, _, _)
IncRange(c, ks, lo, hi) ==
    IF lo > hi THEN c
    ELSE IF lo = hi THEN Inc(c, ks[lo])
    ELSE LET mid == (lo + hi) \div 2
             first == IncRange(c, ks, lo, mid)
         IN  IF Len(first) > 0 THEN IncRange(first, ks, mid + 1, hi)
             ELSE IncRange(<< >>, ks, mid + 1, hi)

IncAll(c, ks, i) == IncRange(c, ks, i, Len(ks))

\* The mention counter after analyze_post_content(post).
AnalyzePostContent(m, post) ==
    IncAll(m, FindMentions(StripTags(post.cooked)), 1)

----------------------------------------------------------------------------
(* Text signal extraction: extract_keywords *)

\* str.lower()
LowerChar(c) ==
    IF \E i \in DOMAIN UpperCase : UpperCase[i] = c
    THEN LowerCase[CHOOSE i \in DOMAIN UpperCase : UpperCase[i] = c]
    ELSE c

Lower(s) == [i \in DOMAIN s |-> LowerChar(s[i])]

\* re.sub(r'[^\w\s]', ' ', text)
ReplaceSpecial(s) ==
    [i \in DOMAIN s |-> IF s[i] \in WordChars \cup Spaces THEN s[i] ELSE " "]

\* The contractions the tokenizer takes apart (those of its list that are
\* written without an apostrophe): cannot, gimme, gonna, gotta, lemme, wanna.
Contractions ==
    {<< <<"c", "a", "n">>, <<"n", "o", "t">> >>,
     << <<"g", "i", "m">>, <<"m", "e">> >>,
     << <<"g", "o", "n">>, <<"n", "a">> >>,
     << <<"g", "o", "t">>, <<"t", "a">> >>,
     << <<"l", "e", "m">>, <<"m", "e">> >>,
     << <<"w", "a", "n">>, <<"n", "a">> >>}

SplitContraction(word) ==
    IF \E c \in Contractions : c[1] \o c[2] = word
    THEN CHOOSE c \in Contractions : c[1] \o c[2] = word
    ELSE <<word>>

\* The last index of the run of non-space characters that starts at i.
TokenEnd(s, i) ==
    LET stops == {j \in i..Len(s) : s[j] \in Spaces} \cup {Len(s) + 1}
    IN  (CHOOSE e \in stops : \A f \in stops : e <= f) - 1

\* word_tokenize(text) for a text of word characters and white space,
\* scanning from position i: the runs between white space, a contraction
\* as its two parts.
RECURSIVE WordTokenizeFrom(_, _)
WordTokenizeFrom(s, i) ==
    IF i > Len(s) THEN << >>
    ELSE IF s[i] \in Spaces THEN WordTokenizeFrom(s, i + 1)
    ELSE SplitContraction(SubSeq(s, i, TokenEnd(s, i)))
         \o WordTokenizeFrom(s, TokenEnd(s, i) + 1)

WordTokenize(s) == WordTokenizeFrom(s, 1)

\* Entries of stopwords.words('english') (the NLTK list; its entries of up
\* to 3 characters make no difference below, line 163 drops such tokens
\* anyway).
StopWords ==
    {<<"t", "h", "e">>,
     <<"a", "n", "d">>,
     <<"t", "h", "i", "s">>,
     <<"t", "h", "a", "t">>,
     <<"w", "i", "t", "h">>,
     <<"f", "r", "o", "m">>,
     <<"h", "a", "v", "e">>,
     <<"a", "b", "o", "u", "t">>,
     <<"t", "h", "e", "i", "r">>,
     <<"t", "h", "e", "r", "e">>,
     <<"t", "h", "e", "s", "e">>,
     <<"b", "e", "c", "a", "u", "s", "e">>,
     <<"b", "e", "t", "w", "e", "e", "n">>,
     <<"s", "h", "o", "u", "l", "d">>,
     <<"t", "h", "r", "o", "u", "g", "h">>}

\* A variant without the stopword test.
NotShort(word) == Len(word) > 3

\* line 163: word not in stop_words and len(word) > 3
NotStopNotShort(word) == word \notin StopWords /\ Len(word) > 3

\* technical_terms
TechnicalTerms ==
    {<<"p", "o", "l", "k", "a", "d", "o", "t">>,
     <<"k", "u", "s", "a", "m", "a">>,
     <<"p", "a", "r", "a", "c", "h", "a", "i", "n">>,
     <<"p", "a", "r", "a", "t", "h", "r", "e", "a", "d">>,
     <<"s", "u", "b", "s", "t", "r", "a", "t", "e">>,
     <<"g", "o", "v", "e", "r", "n", "a", "n", "c", "e">>,
     <<"r", "e", "f", "e", "r", "e", "n", "d", "u", "m">>,
     <<"p", "r", "o", "p", "o", "s", "a", "l">>,
     <<"v", "a", "l", "i", "d", "a", "t", "o", "r">>,
     <<"n", "o", "m", "i", "n", "a", "t", "o", "r">>,
     <<"c", "o", "l", "l", "a", "t", "o", "r">>,
     <<"s", "t", "a", "k", "i", "n", "g">>,
     <<"x", "c", "m">>,
     <<"o", "p", "e", "n", "g", "l">>,
     <<"r", "e", "l", "a", "y">>,
     <<"a", "u", "s", "d">>,
     <<"c", "h", "a", "i", "n">>,
     <<"w", "a", "l", "l", "e", "t">>,
     <<"t", "o", "k", "e", "n">>,
     <<"d", "o", "t", "s", "a", "m", "a">>,
     <<"w", "e", "b", "3">>,
     <<"b", "l", "o", "c", "k", "c", "h", "a", "i", "n">>}

\* A variant that counts every token left by line 163.
AnyWord(word) == TRUE

\* line 175: word in technical_terms or len(word) > 4
TechnicalOrLong(word) == word \in TechnicalTerms \/ Len(word) > 4

\* The tokens extract_keywords(text) counts, in order.
CountedTokens(text) ==
    SelectSeq(SelectSeq(WordTokenize(ReplaceSpecial(Lower(text))),
                        NotStopNotShort),
              TechnicalOrLong)

\* The keyword counter after extract_keywords(text).
ExtractKeywords(kw, text) == IncAll(kw, CountedTokens(text), 1)

\* The keyword counter after analyze_post_content(post), which hands the
\* text without its tags to extract_keywords (line 151).
KeywordsOfPost(kw, post) == ExtractKeywords(kw, StripTags(post.cooked))

Post(username, cooked, created_at) ==
    [username |-> username, cooked |-> cooked, created_at |-> created_at]

\* A post whose "cooked" is null: post.get("cooked", "") is then None and
\* re.sub raises TypeError on line 143.
PostNullCooked(username, created_at) ==
    [username |-> username, cooked |-> << >>, created_at |-> created_at,
     cooked_null |-> TRUE]

CookedIsNull(post) == "cooked_null" \in DOMAIN post

\* The first post of ps at which analyze_post_content raises; 0 without one.
RaisesAt(ps) ==
    IF \E i \in DOMAIN ps : CookedIsNull(ps[i])
    THEN CHOOSE i \in DOMAIN ps :
            /\ CookedIsNull(ps[i])
            /\ \A j \in 1..(i - 1) : ~CookedIsNull(ps[j])
    ELSE 0

\* In the loop of lines 110-116 the author of a post is counted before its
\* content is analysed: these are the last post counted and the last post
\* analysed when the loop ends, at the end of ps or at an exception.
LastCounted(ps) == IF RaisesAt(ps) = 0 THEN Len(ps) ELSE RaisesAt(ps)

LastAnalysed(ps) == IF RaisesAt(ps) = 0 THEN Len(ps) ELSE RaisesAt(ps) - 1

\* The loop over the posts of one response (lines 110-116): each counter
\* after the posts ps[lo..hi] have been processed in list order (the range
\* walked by halves, as in SortDescRange).
RECURSIVE ActivityAfter(_, _, _, _)
ActivityAfter(ua, ps, lo, hi) ==
    IF lo > hi THEN ua
    ELSE IF lo = hi
    THEN (IF Truthy(ps[lo].username) THEN Inc(ua, ps[lo].username.v) ELSE ua)
    ELSE LET mid == (lo + hi) \div 2
             first == ActivityAfter(ua, ps, lo, mid)
         IN  IF Len(first) > 0 THEN ActivityAfter(first, ps, mid + 1, hi)
             ELSE ActivityAfter(<< >>, ps, mid + 1, hi)

RECURSIVE MentionsAfter(_, _, _, _)
MentionsAfter(m, ps, lo, hi) ==
    IF lo > hi THEN m
    ELSE IF lo = hi THEN AnalyzePostContent(m, ps[lo])
    ELSE LET mid == (lo + hi) \div 2
             first == MentionsAfter(m, ps, lo, mid)
         IN  IF Len(first) > 0 THEN MentionsAfter(first, ps, mid + 1, hi)
             ELSE MentionsAfter(<< >>, ps, mid + 1, hi)

RECURSIVE KeywordsAfter(_, _, _, _)
KeywordsAfter(kw, ps, lo, hi) ==
    IF lo > hi THEN kw
    ELSE IF lo = hi THEN KeywordsOfPost(kw, ps[lo])
    ELSE LET mid == (lo + hi) \div 2
             first == KeywordsAfter(kw, ps, lo, mid)
         IN  IF Len(first) > 0 THEN KeywordsAfter(first, ps, mid + 1, hi)
             ELSE KeywordsAfter(<< >>, ps, mid + 1, hi)

\* A variant that counts the tags of the last response only.
TagsOfLastResponse(tc, tags) == IncRange(<< >>, tags, 1, Len(tags))

\* for tag in tags: self.tag_counts[tag] += 1
TagsAfter(tc, tags) == IncAll(tc, tags, 1)

----------------------------------------------------------------------------
(* Scoring: _identify_active_users, _identify_influential_users *)

\* A variant that ranks by the influence score.
ActiveUsersByInfluence ==
    Head_n(SortDesc([i \in DOMAIN user_activity |->
                [key |-> MentionWeight * Count(mentions, user_activity[i].key)
                         + user_activity[i].count,
                 val |-> [username |-> user_activity[i].key,
                          post_count |-> user_activity[i].count]]]),
           ActiveUsersLimit)

\* [{"username": u, "post_count": c} for u, c in self.user_activity.items()],
\* sorted by post_count, reverse=True, [:50].
IdentifyActiveUsers ==
    Head_n(SortDesc([i \in DOMAIN user_activity |->
                [key |-> user_activity[i].count,
                 val |-> [username |-> user_activity[i].key,
                          post_count |-> user_activity[i].count]]]),
           ActiveUsersLimit)

\* acc followed by the elements of s[lo..hi] that are new, each once, at its
\* first place (the range walked by halves, as in SortDescRange).
RECURSIVE DedupRange(_, _, _, _)
DedupRange(acc, s, lo, hi) ==
    IF lo > hi THEN acc
    ELSE IF lo = hi
    THEN (IF \E k \in DOMAIN acc : acc[k] = s[lo] THEN acc ELSE Append(acc, s[lo]))
    ELSE LET mid == (lo + hi) \div 2
             first == DedupRange(acc, s, lo, mid)
         IN  IF Len(first) > 0 THEN DedupRange(first, s, mid + 1, hi)
             ELSE DedupRange(<< >>, s, mid + 1, hi)

Dedup(s) == DedupRange(<< >>, s, 1, Len(s))

\* list(self.mentions.keys()) + list(self.user_activity.keys()), each name
\* once, at its first place.
UsernamesInEntryOrder ==
    Dedup(Keys(mentions) \o Keys(user_activity))

Reverse(s) == [i \in DOMAIN s |-> s[Len(s) + 1 - i]]

Perms(S) ==
    {f \in [1..Cardinality(S) -> S] :
        \A i, j \in 1..Cardinality(S) : i # j => f[i] # f[j]}

\* The orders in which "for username in all_usernames" may visit the set
\* built on line 418.  A Python set of strings iterates in hash order, and
\* string hashes are randomised per process, so the order is not fixed by
\* the data: every permutation for a set of at most PermLimit names, and
\* beyond that the entry order and its reverse.
UsernameOrders ==
    IF Len(UsernamesInEntryOrder) <= PermLimit
    THEN Perms({UsernamesInEntryOrder[i] : i \in DOMAIN UsernamesInEntryOrder})
    ELSE {UsernamesInEntryOrder, Reverse(UsernamesInEntryOrder)}

\* A variant without the weight of a mention.
InfluenceScoreUnweighted(mention_count, post_count) == mention_count + post_count

\* influence_score = (mention_count * 3) + post_count
InfluenceScore(mention_count, post_count) ==
    (mention_count * MentionWeight) + post_count

InfluenceEntry(username) ==
    LET mention_count == Count(mentions, username)
        post_count == Count(user_activity, username)
    IN  [username |-> username, mention_count |-> mention_count,
         post_count |-> post_count,
         influence_score |-> InfluenceScore(mention_count, post_count)]

HasInfluence(e) == e.influence_score > 0

\* order: the iteration order of all_usernames.
IdentifyInfluentialUsers(order) ==
    LET entries == [i \in DOMAIN order |-> InfluenceEntry(order[i])]
        emitted == SelectSeq(entries, HasInfluence)
    IN  Head_n(SortDesc([i \in DOMAIN emitted |->
                    [key |-> emitted[i].influence_score, val |-> emitted[i]]]),
               InfluentialUsersLimit)

----------------------------------------------------------------------------
(* Counter rankings: _analyze_keywords, _analyze_tags *)

\* Counter.most_common(n): the entries in descending order of count, equal
\* counts in insertion order, the first n of them.
MostCommon(c, n) ==
    Head_n(SortDesc([i \in DOMAIN c |-> [key |-> c[i].count, val |-> c[i]]]), n)

AnalyzeKeywords == MostCommon(keywords, TrendingKeywordsLimit)

AnalyzeTags == MostCommon(tag_counts, PopularTagsLimit)

----------------------------------------------------------------------------
(* Timeline: _analyze_activity_timeline *)

JList(s) == [kind |-> "list", v |-> s]

\* A variant whose except clause does not catch the ValueError of
\* fromisoformat.
CreatedAtOutcomeUncaught(created_at) ==
    CASE ~Truthy(created_at) -> "skip"
      [] created_at.kind = "iso" -> "parsed"
      [] OTHER -> "raise"

\* The try block of lines 468-476 for one post: "skip" when created_at is
\* falsy or fromisoformat rejects it (ValueError, caught), "parsed", or
\* "raise" for an exception the except clause does not catch (a truthy
\* value that is no string has no .replace: AttributeError).
CreatedAtOutcome(created_at) ==
    CASE ~Truthy(created_at) -> "skip"
      [] created_at.kind = "iso" -> "parsed"
      [] created_at.kind = "badstr" -> "skip"
      [] OTHER -> "raise"

HasTimestamp(post) == CreatedAtOutcome(post.created_at) = "parsed"

\* The exception, if any, raised while the timestamps are collected.
TimelineError(ps) ==
    IF \E i \in DOMAIN ps : CreatedAtOutcome(ps[i].created_at) = "raise"
    THEN "AttributeError" ELSE "none"

\* series.dt.floor('D'): the day of each timestamp, in list order.
FlooredDays(ps) ==
    LET stamped == SelectSeq(ps, HasTimestamp)
    IN  [i \in DOMAIN stamped |-> stamped[i].created_at.v \div TicksPerDay]

\* value_counts(): one entry per distinct day, in descending order of count.
ValueCounts(days) ==
    LET counted == IncAll(<< >>, days, 1)
    IN  SortDesc([i \in DOMAIN counted |->
                     [key |-> counted[i].count, val |-> counted[i]]])

\* A variant that leaves the entries in the order of value_counts().
UnsortedIndex(entries) == entries

\* sort_index(): the entries in ascending order of day.
SortIndex(entries) ==
    SortDesc([i \in DOMAIN entries |->
                 [key |-> 0 - entries[i].key, val |-> entries[i]]])

\* A variant that returns a list whenever there are posts.
ActivityTimelineOrEmptyList(ps) ==
    IF ps = << >> THEN JNull
    ELSE LET daily_counts == SortIndex(ValueCounts(FlooredDays(ps)))
         IN  JList([i \in DOMAIN daily_counts |->
                       [date |-> daily_counts[i].key,
                        count |-> daily_counts[i].count]])

\* What _analyze_activity_timeline returns for the post list ps when it
\* does not raise: None, or the list of {"date", "count"} entries.
ActivityTimeline(ps) ==
    IF ps = << >> THEN JNull
    ELSE IF SelectSeq(ps, HasTimestamp) = << >> THEN JNull
    ELSE LET daily_counts == SortIndex(ValueCounts(FlooredDays(ps)))
         IN  JList([i \in DOMAIN daily_counts |->
                       [date |-> daily_counts[i].key,
                        count |-> daily_counts[i].count]])

----------------------------------------------------------------------------
(* What the forum returns *)

T == TicksPerDay

\* Pages of /c/{category_id}.json
PageScenario ==
    << Topic(1, JInt(1000), JInt(20), "false", JIso(Now0 - 5 * T)),
       Topic(2, JInt(5000), JInt(40), "true", JIso(Now0)) >>

PageNoTimestamp ==
    << Topic(3, JInt(10), JInt(2), "false", JAbsent),
       Topic(4, JInt(10), JInt(2), "absent", JNull),
       Topic(5, JInt(10), JInt(2), "null", JEmptyStr),
       Topic(6, JInt(10), JInt(2), "false", JBadStr),
       Topic(7, JAbsent, JAbsent, "false", JInt(0)) >>

PageAges ==
    << Topic(8, JInt(10), JInt(2), "false", JIso(Now0 + T)),
       Topic(9, JInt(10), JInt(2), "false", JIso(Now0 - 29 * T)),
       Topic(10, JInt(10), JInt(2), "false", JIso(Now0 - 29 * T - 1)),
       Topic(11, JInt(10), JInt(2), "false", JIso(Now0 - 45 * T)),
       Topic(12, JInt(0), JInt(1), "false", JIso(Now0 - 500 * T)) >>

PageNumberTimestamp ==
    << Topic(13, JInt(10), JInt(2), "false", JInt(1700000000)) >>

PageNullViews ==
    << Topic(14, JNull, JInt(2), "false", JIso(Now0 - T)) >>

PageBulk ==
    [i \in 1..BulkLen |->
        Topic(100 + i, JInt((i % 3) * 10), JInt((i % 2) + 1),
              IF i % 27 = 0 THEN "true" ELSE "false",
              JIso(Now0 - (i % 4) * T))]

TopicPages ==
    {PageScenario, PageNoTimestamp, PageAges, PageNumberTimestamp,
     PageNullViews, PageBulk, << >>}

\* Post streams of /t/{topic_id}.json
Alice == <<"a", "l">>
Bob == <<"b", "o", "b">>
Cy == <<"c", "y">>
Di == <<"d", "i">>

UserName(k) == <<"u", DigitChars[((k \div 10) % 10) + 1], DigitChars[(k % 10) + 1]>>

BodyPlain == <<"h", "i">>

\* <p>@bob,@bob</p>@bob<b>@bob</b>
BodyFourBob ==
    <<"<", "p", ">", "@", "b", "o", "b", ",", "@", "b", "o", "b", "<", "/", "p", ">",
      "@", "b", "o", "b", "<", "b", ">", "@", "b", "o", "b", "<", "/", "b", ">">>

PostsScenario ==
    [i \in 1..10 |-> Post(JStr(Bob), BodyPlain, JIso(Now0 - i))]
    \o << Post(JStr(Alice), BodyFourBob, JIso(Now0)) >>

PostsMentionOnly ==
    << \* @eve <@cy>@al
       Post(JStr(Alice), <<"@", "e", "v", "e", " ", "<", "@", "c", "y", ">", "@", "a", "l">>,
            JAbsent),
       \* @al@di
       Post(JAbsent, <<"@", "a", "l", "@", "d", "i">>, JNull),
       \* <>@eve
       Post(JEmptyStr, <<"<", ">", "@", "e", "v", "e">>, JEmptyStr),
       \* a@cy @
       Post(JNull, <<"a", "@", "c", "y", " ", "@">>, JBadStr) >>

PostsTies ==
    << Post(JStr(Cy), BodyPlain, JIso(Now0 - T)),
       Post(JStr(Di), BodyPlain, JIso(Now0 - 3 * T)),
       Post(JStr(Cy), <<"@", "d", "i">>, JIso(Now0 - 3 * T + 1)) >>

PostsBulk ==
    [i \in 1..BulkLen |->
        Post(JStr(UserName(i)), <<"@">> \o UserName((i % 5) + 1),
             JIso(Now0 - (i % 7)))]

\* <p>Check @alice and @bob re the <b>treasury</b> proposal</p>
BodyScenario ==
    <<"<", "p", ">", "C", "h", "e", "c", "k", " ", "@", "a", "l", "i", "c",
      "e", " ", "a", "n", "d", " ", "@", "b", "o", "b", " ", "r", "e", " ",
      "t", "h", "e", " ", "<", "b", ">", "t", "r", "e", "a", "s", "u", "r",
      "y", "<", "/", "b", ">", " ", "p", "r", "o", "p", "o", "s", "a", "l",
      "<", "/", "p", ">">>

\* XCM xcm, web3 & ausd: vote dot relay
BodyShortTerms ==
    <<"X", "C", "M", " ", "x", "c", "m", ",", " ", "w", "e", "b", "3", " ",
      "&", " ", "a", "u", "s", "d", ":", " ", "v", "o", "t", "e", " ", "d",
      "o", "t", " ", "r", "e", "l", "a", "y">>

\* About their chain because THESE cannot gonna token_x
BodyStopWords ==
    <<"A", "b", "o", "u", "t", " ", "t", "h", "e", "i", "r", " ", "c", "h",
      "a", "i", "n", " ", "b", "e", "c", "a", "u", "s", "e", " ", "T", "H",
      "E", "S", "E", " ", "c", "a", "n", "n", "o", "t", " ", "g", "o", "n",
      "n", "a", " ", "t", "o", "k", "e", "n", "_", "x">>

\* gover<b>nance</b> @al<i>ice</i> <a href=@cy>staking</a> 4<5 a>b
BodyTags ==
    <<"g", "o", "v", "e", "r", "<", "b", ">", "n", "a", "n", "c", "e", "<",
      "/", "b", ">", " ", "@", "a", "l", "<", "i", ">", "i", "c", "e", "<",
      "/", "i", ">", " ", "<", "a", " ", "h", "r", "e", "f", "=", "@", "c",
      "y", ">", "s", "t", "a", "k", "i", "n", "g", "<", "/", "a", ">", " ",
      "4", "<", "5", " ", "a", ">", "b">>

\* Two days, the later one first and with more posts.
PostsTwoDays ==
    << Post(JStr(Alice), BodyScenario, JIso(Now0)),
       Post(JStr(Bob), BodyShortTerms, JIso(Now0 - 2 * T)),
       Post(JStr(Cy), BodyShortTerms, JIso(Now0 + 1)) >>

\* Posts without a usable timestamp beside one that has one.
PostsSomeUntimed ==
    << Post(JStr(Alice), BodyStopWords, JAbsent),
       Post(JNull, BodyTags, JBadStr),
       Post(JStr(Bob), BodyStopWords, JIso(Now0 - T)) >>

\* created_at is a number.
PostsNumberCreatedAt ==
    << Post(JStr(Cy), BodyTags, JInt(1700000000)) >>

PostsUntimed ==
    << Post(JStr(Di), BodyShortTerms, JNull),
       Post(JStr(Di), BodyPlain, JEmptyStr) >>

\* Responses of /t/{topic_id}.json: the tags and the post stream
TagGov == <<"g", "o", "v">>
TagDev == <<"d", "e", "v">>

Details(tags, stream) == [tags |-> tags, posts |-> stream]

TopicDetails ==
    {Details(<<TagGov>>, PostsScenario),
     Details(<< >>, PostsMentionOnly),
     Details(<<TagGov, TagDev>>, PostsTies),
     Details(<<TagDev>>, PostsBulk),
     Details(<< >>, << >>)}

PostDetails ==
    {Details(<<TagGov>>, PostsTwoDays),
     Details(<<TagGov, TagDev>>, PostsSomeUntimed),
     Details(<< >>, PostsNumberCreatedAt),
     Details(<<TagDev>>, PostsUntimed),
     Details(<< >>, PostsMentionOnly),
     Details(<<TagDev, TagDev>>, << >>)}

----------------------------------------------------------------------------
(* The operations *)

Returned(op, value) == [op |-> op, raised |-> "none", now |-> 0, value |-> value]

EmptyDict == [k \in {} |-> 0]

NoProbe == [d1 |-> 0, d2 |-> 0, r1 |-> 0, r2 |-> 0, applied |-> FALSE]

NoShard == [batch |-> << >>, done |-> {}, mentions |-> << >>, keywords |-> << >>]

NoReport == [called |-> FALSE]

NoSubscribers == [rows |-> << >>, log |-> << >>]

NoLoop ==
    [pc |-> "idle", forum |-> "", max_categories |-> 0,
     max_topics_per_category |-> 0, max_topics_details |-> 0,
     categories |-> << >>, i |-> 1, page |-> 0, topics_count |-> 0,
     requested |-> << >>, category_topics |-> EmptyDict, detailed |-> << >>]

NoStages == [pc |-> "idle", test_mode |-> FALSE, runs |-> 0, log |-> << >>]

\* Nothing has been reported, collected or sent yet, and the store is empty.
SideInit ==
    /\ integrated = NoReport
    /\ subscribers = NoSubscribers
    /\ loop = NoLoop
    /\ stages = NoStages

\* __init__
Init ==
    /\ topics = << >>
    /\ posts = << >>
    /\ user_activity = << >>
    /\ mentions = << >>
    /\ keywords = << >>
    /\ tag_counts = << >>
    /\ calls = 0
    /\ ret = Returned("__init__", 0)
    /\ probe = NoProbe
    /\ shard = NoShard
    /\ runs = << >>
    /\ SideInit

\* fetch_topics_for_category, status 200
FetchTopicsForCategory(page) ==
    /\ calls < MaxCalls
    /\ topics' = topics \o page
    /\ calls' = calls + 1
    /\ ret' = Returned("fetch_topics_for_category", Len(page))
    /\ UNCHANGED <<posts, counters, aux>>

\* fetch_topics_for_category, another status or a failed request
FetchTopicsFailed ==
    /\ calls < MaxCalls
    /\ calls' = calls + 1
    /\ ret' = Returned("fetch_topics_for_category", 0)
    /\ UNCHANGED <<topics, posts, counters, aux>>

\* What fetch_topic_details returns, and whether it went through one of
\* its two failure branches (lines 131-136).
Fetched(value, failed) ==
    [op |-> "fetch_topic_details", raised |-> "none", now |-> 0,
     value |-> value, failed |-> failed]

\* fetch_topic_details, status 200: the tags of the response are counted,
\* its posts are stored and each is counted for its author and scanned for
\* mentions and keywords.  An exception on the way is caught on line 134,
\* where 0 is returned and what was written before stays.  (The
\* governance-proposal list, lines 119-128, is not read by the results
\* below and is not part of this state.)
FetchTopicDetails(data) ==
    /\ calls < MaxCalls
    /\ tag_counts' = TagsAfter(tag_counts, data.tags)
    /\ posts' = posts \o data.posts
    /\ user_activity' = ActivityAfter(user_activity, data.posts, 1,
                                      LastCounted(data.posts))
    /\ mentions' = MentionsAfter(mentions, data.posts, 1, LastAnalysed(data.posts))
    /\ keywords' = KeywordsAfter(keywords, data.posts, 1, LastAnalysed(data.posts))
    /\ calls' = calls + 1
    /\ ret' = IF RaisesAt(data.posts) = 0 THEN Fetched(Len(data.posts), FALSE)
              ELSE Fetched(0, TRUE)
    /\ UNCHANGED <<topics, aux>>

\* fetch_topic_details, another status or a failed request
FetchTopicDetailsFailed ==
    /\ calls < MaxCalls
    /\ calls' = calls + 1
    /\ ret' = Fetched(0, TRUE)
    /\ UNCHANGED <<topics, posts, counters, aux>>

\* The exception, if any, that leaves analyze(): that of the first helper,
\* in call order, that raises.
AnalyzeError ==
    IF HotTopicsError # "none" THEN HotTopicsError ELSE TimelineError(posts)

\* What analyze() may return: now is datetime.now(), and there is one result
\* for each order in which the set of usernames may be iterated.  The result
\* holds the rankings, the timeline when there is one, and the counts of
\* the metrics entry.  (category_activity and governance_discussions are
\* derived from state left out above.)
AnalyzeResults(now) ==
    IF topics = << >> \/ posts = << >> THEN {EmptyDict}
    ELSE LET hot_topics == IdentifyHotTopics(now)
             active_users == IdentifyActiveUsers
             trending_keywords == AnalyzeKeywords
             popular_tags == AnalyzeTags
             activity_timeline == ActivityTimeline(posts)
             metrics == [total_topics_analyzed |-> Len(topics),
                         total_posts_analyzed |-> Len(posts),
                         unique_users |-> Len(user_activity),
                         unique_tags |-> Len(tag_counts),
                         unique_keywords |-> Len(keywords)]
             fixed == [hot_topics |-> hot_topics,
                       active_users |-> active_users,
                       trending_keywords |-> trending_keywords,
                       popular_tags |-> popular_tags,
                       metrics |-> metrics]
             timed == IF activity_timeline.kind = "list"
                      THEN [activity_timeline |-> activity_timeline.v] @@ fixed
                      ELSE fixed
         IN  {[influential_users |-> IdentifyInfluentialUsers(order)] @@ timed :
                 order \in UsernameOrders}

\* analyze(): an exception raised by a helper leaves analyze().
Analyze(now) ==
    /\ IF topics # << >> /\ posts # << >> /\ AnalyzeError # "none"
       THEN ret' = [op |-> "analyze", raised |-> AnalyzeError, now |-> now,
                    value |-> EmptyDict]
       ELSE \E result \in AnalyzeResults(now) :
               ret' = [op |-> "analyze", raised |-> "none", now |-> now,
                       value |-> result]
    /\ UNCHANGED <<topics, posts, counters, calls, aux>>

\* _analyze_activity_timeline() called on its own (as the visualisation
\* step does).
AnalyzeActivityTimeline ==
    /\ IF TimelineError(posts) # "none" /\ posts # << >>
       THEN ret' = [op |-> "_analyze_activity_timeline",
                    raised |-> TimelineError(posts), now |-> 0,
                    value |-> JNull]
       ELSE ret' = Returned("_analyze_activity_timeline", ActivityTimeline(posts))
    /\ UNCHANGED <<topics, posts, counters, calls, aux>>

Next ==
    \/ \E page \in TopicPages : FetchTopicsForCategory(page)
    \/ FetchTopicsFailed
    \/ \E data \in TopicDetails : FetchTopicDetails(data)
    \/ FetchTopicDetailsFailed
    \/ \E now \in NowValues : Analyze(now)

Spec == Init /\ [][Next]_vars

----------------------------------------------------------------------------
(* The analyzer fed with post streams that exercise the text and timeline  *)
(* rules                                                                    *)

NextPosts ==
    \/ \E data \in PostDetails : FetchTopicDetails(data)
    \/ FetchTopicDetailsFailed
    \/ FetchTopicsForCategory(PageScenario)
    \/ \E now \in NowValues : Analyze(now)
    \/ AnalyzeActivityTimeline

SpecPosts == Init /\ [][NextPosts]_vars

----------------------------------------------------------------------------
(* A batch of posts shared out between two analyzers: each post is handed, *)
(* in any order, to analyze_post_content of this analyzer or of a second,  *)
(* freshly initialised one                                                  *)

BatchPosts ==
    {PostsTwoDays[1], PostsTwoDays[2], PostsSomeUntimed[2], PostsTies[3]}

Batches == [1..BatchLen -> BatchPosts]

InitShard ==
    /\ topics = << >>
    /\ posts = << >>
    /\ user_activity = << >>
    /\ mentions = << >>
    /\ keywords = << >>
    /\ tag_counts = << >>
    /\ calls = 0
    /\ ret = Returned("__init__", 0)
    /\ probe = NoProbe
    /\ shard \in {[batch |-> b, done |-> {}, mentions |-> << >>,
                    keywords |-> << >>] : b \in Batches}
    /\ runs = << >>
    /\ SideInit

\* analyze_post_content(shard.batch[i]) on this analyzer
AnalyzeHere(i) ==
    /\ i \in DOMAIN shard.batch \ shard.done
    /\ mentions' = AnalyzePostContent(mentions, shard.batch[i])
    /\ keywords' = KeywordsOfPost(keywords, shard.batch[i])
    /\ shard' = [shard EXCEPT !.done = @ \cup {i}]
    /\ ret' = Returned("analyze_post_content", 0)
    /\ UNCHANGED <<topics, posts, user_activity, tag_counts, calls, probe, runs, side>>

\* analyze_post_content(shard.batch[i]) on the second analyzer
AnalyzeThere(i) ==
    /\ i \in DOMAIN shard.batch \ shard.done
    /\ shard' = [shard EXCEPT
                    !.done = @ \cup {i},
                    !.mentions = AnalyzePostContent(@, shard.batch[i]),
                    !.keywords = KeywordsOfPost(@, shard.batch[i])]
    /\ ret' = Returned("analyze_post_content", 0)
    /\ UNCHANGED <<topics, posts, counters, calls, probe, runs, side>>

NextShard ==
    \/ \E i \in 1..BatchLen : AnalyzeHere(i)
    \/ \E i \in 1..BatchLen : AnalyzeThere(i)

SpecShard == InitShard /\ [][NextShard]_vars

----------------------------------------------------------------------------
(* Runs: run_forum_analysis of the integration object, which keeps one     *)
(* analyzer (self.forum_analyzer, made once in __init__) and calls its     *)
(* collect_data and analyze on every run                                    *)

\* A forum as the requests of one run see it: whether /categories.json
\* answers, the ids of its categories, the pages of each category and the
\* response for each topic id (no entry: the request fails).
Forum(name, ok, categories, pages, details) ==
    [name |-> name, ok |-> ok, categories |-> categories, pages |-> pages,
     details |-> details]

ForumSmall ==
    Forum("small", TRUE, <<JInt(1)>>,
          [c \in {1} |-> <<PageScenario>>],
          [t \in {1, 2} |-> IF t = 1 THEN Details(<<TagGov>>, PostsTwoDays)
                                     ELSE Details(<<TagDev>>, PostsTies)])

ForumTwoCategories ==
    Forum("two", TRUE, <<JInt(1), JNull, JInt(2), JInt(3)>>,
          [c \in {1, 2} |-> IF c = 1 THEN <<PageScenario, PageNoTimestamp>>
                                     ELSE <<PageAges>>],
          [t \in {1, 9, 12} |->
              IF t = 1 THEN Details(<<TagGov>>, PostsSomeUntimed)
              ELSE IF t = 9 THEN Details(<<TagGov, TagDev>>, PostsUntimed)
              ELSE Details(<< >>, << >>)])

ForumBulk ==
    Forum("bulk", TRUE, <<JInt(7)>>,
          [c \in {7} |-> <<PageBulk, PageScenario>>],
          [t \in 101..(100 + BulkLen) |-> Details(<<TagDev>>, <<PostsBulk[t - 100]>>)])

ForumNullViews ==
    Forum("nullviews", TRUE, <<JInt(1)>>,
          [c \in {1} |-> <<PageNullViews>>],
          [t \in {14} |-> Details(<< >>, PostsTies)])

ForumDown == Forum("down", FALSE, << >>, [c \in {} |-> << >>], [t \in {} |-> 0])

Forums == {ForumSmall, ForumTwoCategories, ForumBulk, ForumNullViews, ForumDown}

\* The analyzer object as a value.
Self ==
    [topics |-> topics, posts |-> posts, user_activity |-> user_activity,
     mentions |-> mentions, keywords |-> keywords, tag_counts |-> tag_counts]

\* The topics of page number page of a category; none when the page does
\* not exist (fetch_topics_for_category then returns 0).
PageOf(forum, category_id, page) ==
    IF category_id \in DOMAIN forum.pages
       /\ page + 1 \in DOMAIN forum.pages[category_id]
    THEN forum.pages[category_id][page + 1]
    ELSE << >>

\* The while loop of lines 197-204: the topics fetched for one category,
\* page after page, until topics_count reaches the limit or a page is empty.
RECURSIVE TopicsOfCategory(_, _, _, _)
TopicsOfCategory(forum, category_id, page, topics_count) ==
    IF topics_count >= MaxTopicsPerCategory THEN << >>
    ELSE LET new_topics == PageOf(forum, category_id, page)
         IN  IF Len(new_topics) = 0 THEN << >>
             ELSE new_topics \o TopicsOfCategory(forum, category_id, page + 1,
                                                 topics_count + Len(new_topics))

\* The for loop of lines 187-206 over categories[i..], a category without
\* an id skipped.
RECURSIVE TopicsOfCategories(_, _, _)
TopicsOfCategories(forum, categories, i) ==
    IF i > Len(categories) THEN << >>
    ELSE (IF Truthy(categories[i])
          THEN TopicsOfCategory(forum, categories[i].v, 0, 0)
          ELSE << >>)
         \o TopicsOfCategories(forum, categories, i + 1)

\* The exception, if any, raised by the sort key of lines 219-223.
EngagementError(ts) ==
    IF \E i \in DOMAIN ts : \/ GetNum(ts[i].views, 0).kind # "int"
                             \/ GetNum(ts[i].posts_count, 0).kind # "int"
    THEN "TypeError" ELSE "none"

\* sorted(self.topics, key=views + posts_count * 5, reverse=True)[:limit]
TopicsToAnalyzeUpTo(ts, max_topics_details) ==
    Head_n(SortDesc([i \in DOMAIN ts |->
                        [key |-> GetNum(ts[i].views, 0).v
                                 + GetNum(ts[i].posts_count, 0).v * 5,
                         val |-> ts[i]]]),
           max_topics_details)

TopicsToAnalyze(ts) == TopicsToAnalyzeUpTo(ts, MaxTopicsDetails)

\* The analyzer after fetch_topic_details has got the response data.
WithDetails(st, data) ==
    [st EXCEPT
        !.tag_counts = TagsAfter(@, data.tags),
        !.posts = @ \o data.posts,
        !.user_activity = ActivityAfter(@, data.posts, 1, LastCounted(data.posts)),
        !.mentions = MentionsAfter(@, data.posts, 1, LastAnalysed(data.posts)),
        !.keywords = KeywordsAfter(@, data.posts, 1, LastAnalysed(data.posts))]

\* The for loop of lines 225-231 over ts[lo..hi]: a topic without an id is
\* skipped, a failed request changes nothing (the range walked by halves,
\* as in SortDescRange).
RECURSIVE WithDetailsOf(_, _, _, _, _)
WithDetailsOf(st, forum, ts, lo, hi) ==
    IF lo > hi THEN st
    ELSE IF lo = hi
    THEN (IF ts[lo].id # 0 /\ ts[lo].id \in DOMAIN forum.details
          THEN WithDetails(st, forum.details[ts[lo].id])
          ELSE st)
    ELSE LET mid == (lo + hi) \div 2
             first == WithDetailsOf(st, forum, ts, lo, mid)
         IN  IF Len(first.posts) >= 0
             THEN WithDetailsOf(first, forum, ts, mid + 1, hi)
             ELSE st

\* collect_data(max_categories=15, max_topics_per_category=20,
\* max_topics_details=100): the analyzer it leaves and the exception, if
\* any, that ends it.
CollectData(st, forum) ==
    IF ~forum.ok THEN [self |-> st, raised |-> "none"]
    ELSE LET fetched == TopicsOfCategories(forum,
                            Head_n(forum.categories, MaxCategories), 1)
             listed == [st EXCEPT !.topics = @ \o fetched]
         IN  IF listed.topics = << >> THEN [self |-> listed, raised |-> "none"]
             ELSE IF EngagementError(listed.topics) # "none"
             THEN [self |-> listed, raised |-> EngagementError(listed.topics)]
             ELSE LET chosen == TopicsToAnalyze(listed.topics)
                  IN  [self |-> WithDetailsOf(listed, forum, chosen, 1, Len(chosen)),
                       raised |-> "none"]

\* run_forum_analysis(), lines 259-265: collect_data on the analyzer the
\* integration object keeps.  An exception of collect_data is caught on
\* line 311 and {} returned; otherwise the run goes on with RunAnalyze.
RunCollectData(forum) ==
    /\ Len(runs) < MaxRuns
    /\ ret.op # "collect_data"
    /\ LET collected == CollectData(Self, forum)
       IN  /\ topics' = collected.self.topics
           /\ posts' = collected.self.posts
           /\ user_activity' = collected.self.user_activity
           /\ mentions' = collected.self.mentions
           /\ keywords' = collected.self.keywords
           /\ tag_counts' = collected.self.tag_counts
           /\ IF collected.raised # "none"
              THEN /\ ret' = Returned("run_forum_analysis", EmptyDict)
                   /\ runs' = Append(runs, [forum |-> forum.name, now |-> 0,
                                            done |-> TRUE, report |-> EmptyDict])
              ELSE /\ ret' = Returned("collect_data", 0)
                   /\ runs' = Append(runs, [forum |-> forum.name, now |-> 0,
                                            done |-> FALSE, report |-> EmptyDict])
    /\ UNCHANGED <<calls, probe, shard, side>>

\* run_forum_analysis(), lines 267-313: analyze() on what collect_data left,
\* and the report returned ({} when analyze() raises).
RunAnalyze(now) ==
    /\ ret.op = "collect_data"
    /\ \E report \in (IF topics # << >> /\ posts # << >> /\ AnalyzeError # "none"
                       THEN {EmptyDict} ELSE AnalyzeResults(now)) :
          /\ ret' = [op |-> "run_forum_analysis", raised |-> "none",
                     now |-> now, value |-> report]
          /\ runs' = [runs EXCEPT ![Len(runs)] =
                         [@ EXCEPT !.now = now, !.done = TRUE, !.report = report]]
    /\ UNCHANGED <<topics, posts, counters, calls, probe, shard, side>>

NextRuns ==
    \/ \E forum \in Forums : RunCollectData(forum)
    \/ \E now \in NowValues : RunAnalyze(now)

SpecRuns == Init /\ [][NextRuns]_vars

----------------------------------------------------------------------------
(* Direct evaluation of the recency factor over a range of ages *)

ProbeAges == (0 - MaxProbeFutureDays * T)..(MaxProbeAgeDays * T)

InitRecency ==
    /\ topics = << >>
    /\ posts = << >>
    /\ user_activity = << >>
    /\ mentions = << >>
    /\ keywords = << >>
    /\ tag_counts = << >>
    /\ calls = 0
    /\ ret = Returned("__init__", 0)
    /\ probe \in {[d1 |-> a, d2 |-> b, r1 |-> 0, r2 |-> 0, applied |-> FALSE] :
                    a \in ProbeAges, b \in ProbeAges}
    /\ shard = NoShard
    /\ runs = << >>
    /\ SideInit

\* lines 381-382 applied to the two ages
ApplyRecency ==
    /\ ~probe.applied
    /\ probe' = [probe EXCEPT !.r1 = RecencyBoostNum(probe.d1),
                              !.r2 = RecencyBoostNum(probe.d2),
                              !.applied = TRUE]
    /\ UNCHANGED <<topics, posts, counters, calls, ret, shard, runs, side>>

NextRecency == ApplyRecency

SpecRecency == InitRecency /\ [][NextRecency]_vars

----------------------------------------------------------------------------
(* The integrated report: generate_integrated_report of the integration    *)
(* object, with the risk flag of the governance analyzer                    *)

\* str(n) for n >= 0
RECURSIVE DigitsOf(_)
DigitsOf(n) ==
    IF n < 10 THEN <<DigitChars[n + 1]>>
    ELSE Append(DigitsOf(n \div 10), DigitChars[(n % 10) + 1])

\* What an f-string writes for the value d.get(key, ''): the default for a
\* missing key, None for null.
PyStr(j) ==
    CASE j.kind = "absent" -> << >>
      [] j.kind = "null" -> <<"N", "o", "n", "e">>
      [] j.kind = "int" -> DigitsOf(j.v)
      [] OTHER -> j.v

\* needle in text
IsSubstring(needle, text) ==
    \E i \in 0..(Len(text) - Len(needle)) :
        SubSeq(text, i + 1, i + Len(needle)) = needle

\* The text lines 533-536 add for the first n arguments: " key value" each.
RECURSIVE ArgsText(_, _)
ArgsText(args, n) ==
    IF n = 0 THEN << >>
    ELSE ArgsText(args, n - 1)
            \o <<" ">> \o args[n].key \o <<" ">> \o PyStr(args[n].value)

\* proposal_text of lines 530-536: section, method and, when args is a
\* dict, every key and value, separated by blanks.
ProposalText(decoded) ==
    PyStr(decoded.section) \o <<" ">> \o PyStr(decoded.method)
        \o (IF decoded.args.kind = "dict"
            THEN ArgsText(decoded.args.v, Len(decoded.args.v))
            ELSE << >>)

\* RISK_KEYWORDS
RISK_KEYWORDS ==
    <<<<"r", "u", "n", "t", "i", "m", "e", " ", "u", "p", "g", "r", "a", "d", "e">>,
      <<"p", "a", "r", "a", "c", "h", "a", "i", "n">>,
      <<"t", "r", "e", "a", "s", "u", "r", "y">>,
      <<"h", "i", "g", "h", " ", "v", "a", "l", "u", "e">>,
      <<"s", "u", "d", "o">>,
      <<"p", "r", "i", "v", "i", "l", "e", "g", "e", "d">>,
      <<"r", "o", "o", "t">>,
      <<"f", "o", "r", "c", "e">>,
      <<"o", "v", "e", "r", "r", "i", "d", "e">>,
      <<"e", "m", "e", "r", "g", "e", "n", "c", "y">>,
      <<"c", "r", "i", "t", "i", "c", "a", "l">>>>

RiskLevels == <<"low", "medium", "high", "critical">>

\* A variant that grades only up to three matches.
RiskLevelUpToThree(matched) ==
    CASE Len(matched) = 1 -> "medium"
      [] Len(matched) = 2 -> "high"
      [] Len(matched) = 3 -> "critical"
      [] OTHER -> "low"

\* The level for a list of matched keywords: low without a match, one level
\* up for each further keyword, critical from three on.
RiskLevel(matched) == RiskLevels[Min(Len(matched), 3) + 1]

IsRiskIn(text) == [k \in DOMAIN RISK_KEYWORDS |-> IsSubstring(RISK_KEYWORDS[k], Lower(text))]

\* The risk keywords found in text, in the order of RISK_KEYWORDS.
RiskKeywordsIn(text) ==
    LET found == IsRiskIn(text)
        Found(k) == found[k]
        at == SelectSeq([k \in DOMAIN RISK_KEYWORDS |-> k], Found)
    IN  [i \in DOMAIN at |-> RISK_KEYWORDS[at[i]]]

\* The risk flag of a proposal: the keywords matched in its composed text
\* and the level they give.
RiskAnalysis(text) ==
    LET matched == RiskKeywordsIn(text)
    IN  [risk_level |-> RiskLevel(matched), risk_factors |-> matched]

NoDecodedCall == [section |-> JAbsent, method |-> JAbsent, args |-> JNull]

Arg(key, value) == [key |-> key, value |-> value]

JDict(entries) == [kind |-> "dict", v |-> entries]

\* A referendum of governance_data["referenda"]: decoded is NoDecodedCall
\* when data has no proposal.decodedCall, forum_data is JAbsent or a JList
\* of topics.
Referendum(index, decoded, forum_data) ==
    [index |-> index, decoded |-> decoded, forum_data |-> forum_data,
     risk_analysis |-> RiskAnalysis(IF decoded = NoDecodedCall THEN << >>
                                    ELSE ProposalText(decoded))]

ForumTopic(title, posts_count, views, url) ==
    [title |-> title, posts_count |-> posts_count, views |-> views, url |-> url]

TitleTreasury == <<"T", "r", "e", "a", "s", "u", "r", "y", " ", "s", "p", "e", "n", "d", " ", "1", "0", "1">>
TitleFees == <<"F", "e", "e", "s">>
TitleRelay == <<"R", "e", "l", "a", "y", " ", "p", "l", "a", "n">>
UrlOne == <<"/", "t", "/", "1">>

RefTreasury ==
    Referendum(101,
               [section |-> JStr(<<"T", "r", "e", "a", "s", "u", "r", "y">>), method |-> JStr(<<"s", "p", "e", "n", "d", "L", "o", "c", "a", "l">>),
                args |-> JDict(<<Arg(<<"a", "m", "o", "u", "n", "t">>, JInt(1000)),
                                 Arg(<<"b", "e", "n", "e", "f", "i", "c", "i", "a", "r", "y">>, JStr(<<"A", "l", "i", "c", "e">>))>>)],
               JList(<<ForumTopic(TitleTreasury, JInt(12), JInt(340), JStr(UrlOne)),
                       ForumTopic(TitleFees, JAbsent, JInt(7), JAbsent)>>))

RefUpgrade ==
    Referendum(102,
               [section |-> JStr(<<"S", "y", "s", "t", "e", "m">>), method |-> JStr(<<"s", "e", "t", "C", "o", "d", "e">>),
                args |-> JDict(<<Arg(<<"n", "o", "t", "e">>, JStr(<<"R", "u", "n", "t", "i", "m", "e", " ", "U", "p", "g", "r", "a", "d", "e", " ", "b", "y", " ", "F", "o", "r", "c", "e">>))>>)],
               JList(<< >>))

RefSudo ==
    Referendum(103,
               [section |-> JStr(<<"S", "u", "d", "o">>), method |-> JNull, args |-> JNull],
               JAbsent)

RefForce ==
    Referendum(104,
               [section |-> JStr(<<"S", "u", "d", "o">>), method |-> JStr(<<"f", "o", "r", "c", "e", "T", "r", "a", "n", "s", "f", "e", "r">>),
                args |-> JDict(<<Arg(<<"t", "r", "e", "a", "s", "u", "r", "y", "_", "r", "o", "o", "t">>, JStr(<<"r", "e", "l", "a", "y">>)),
                                 Arg(<<"p", "r", "o", "p", "o", "s", "a", "l", "_", "h", "a", "s", "h">>, JInt(7))>>)],
               JAbsent)

RefUndecoded ==
    Referendum(105, NoDecodedCall,
               JList(<<ForumTopic(TitleRelay, JInt(3), JAbsent, JStr(UrlOne))>>))

RefRemark ==
    Referendum(106,
               [section |-> JStr(<<"S", "y", "s", "t", "e", "m">>), method |-> JStr(<<"r", "e", "m", "a", "r", "k">>),
                args |-> JList(<< >>)],
               JAbsent)

\* governance_data as run_governance_analysis returns it: {} or a result
\* with its referenda.
NoGovernance == [empty |-> TRUE, referenda |-> << >>]

Governance(referenda) == [empty |-> FALSE, referenda |-> referenda]

GovernanceData ==
    {NoGovernance,
     Governance(<< >>),
     Governance(<<RefTreasury, RefUpgrade>>),
     Governance(<<RefSudo, RefUndecoded, RefForce>>),
     Governance(<<RefRemark, RefSudo>>)}

\* forum_data as run_forum_analysis hands it on: {} when analyze() had no
\* data or raised, else the result with the trending keywords.  shape is
\* the type of the entries of trending_keywords: "tuple" as analyze() makes
\* them, "dict" ({"word", "count"}) or "list".
ForumData(shape) ==
    IF topics = << >> \/ posts = << >> \/ AnalyzeError # "none"
    THEN [empty |-> TRUE, trending_keywords |-> [shape |-> shape, items |-> << >>]]
    ELSE [empty |-> FALSE,
          trending_keywords |-> [shape |-> shape, items |-> AnalyzeKeywords]]

\* convert_numpy_types (lines 347-365): with numpy installed every tuple
\* becomes a list; without it the data is returned as it is.
ConvertNumpyTypes(forum_data, numpy) ==
    IF numpy /\ forum_data.trending_keywords.shape = "tuple"
    THEN [forum_data EXCEPT !.trending_keywords.shape = "list"]
    ELSE forum_data

\* Lines 516-521: the words of the trending keywords, taken from dicts or
\* from tuples; no word for entries of another type.
TrendingWords(trending_keywords) ==
    IF trending_keywords.items = << >> THEN << >>
    ELSE IF trending_keywords.shape \in {"dict", "tuple"}
    THEN [i \in DOMAIN trending_keywords.items |-> trending_keywords.items[i].key]
    ELSE << >>

\* A variant that reports the first associated topic only.
FirstTopicMatch(ref) ==
    IF ref.forum_data.kind # "list" \/ ref.forum_data.v = << >> THEN << >>
    ELSE LET forum_topic == ref.forum_data.v[1]
         IN  <<[referendum_id |-> ref.index,
                topic_title |-> forum_topic.title,
                posts_count |-> GetNum(forum_topic.posts_count, 0).v,
                views |-> GetNum(forum_topic.views, 0).v,
                url |-> PyStr(forum_topic.url)]>>

\* Lines 496-506 for one referendum: an entry for each topic of its
\* forum_data, if it has the key.
TopicMatches(ref) ==
    IF ref.forum_data.kind # "list" THEN << >>
    ELSE [i \in DOMAIN ref.forum_data.v |->
             LET forum_topic == ref.forum_data.v[i]
             IN  [referendum_id |-> ref.index,
                  topic_title |-> forum_topic.title,
                  posts_count |-> GetNum(forum_topic.posts_count, 0).v,
                  views |-> GetNum(forum_topic.views, 0).v,
                  url |-> PyStr(forum_topic.url)]]

\* forum_referendum_matches after the first n referenda
RECURSIVE ForumReferendumMatches(_, _)
ForumReferendumMatches(referenda, n) ==
    IF n = 0 THEN << >>
    ELSE ForumReferendumMatches(referenda, n - 1) \o TopicMatches(referenda[n])

\* Lines 538-545 for one referendum: an entry for each word that, in lower
\* case, is in the lower-cased proposal text.
WordMatches(words, ref) ==
    IF ref.decoded = NoDecodedCall THEN << >>
    ELSE LET proposal_text == ProposalText(ref.decoded)
             lowered == Lower(proposal_text)
             Found(keyword) == IsSubstring(Lower(keyword), lowered)
             found == SelectSeq(words, Found)
         IN  [i \in DOMAIN found |->
                 [keyword |-> found[i], referendum_id |-> ref.index,
                  proposal_text |-> proposal_text]]

\* keyword_matches after the first n referenda
RECURSIVE KeywordMatches(_, _, _)
KeywordMatches(words, referenda, n) ==
    IF n = 0 THEN << >>
    ELSE KeywordMatches(words, referenda, n - 1) \o WordMatches(words, referenda[n])

\* Line 459: the referenda of the high-risk section, critical first.
HighRisk(referenda) ==
    LET Critical(ref) == ref.risk_analysis.risk_level = "critical"
        High(ref) == ref.risk_analysis.risk_level = "high"
    IN  SelectSeq(referenda, Critical) \o SelectSeq(referenda, High)

\* What generate_integrated_report writes for these arguments.  The
\* correlation section is written when both arguments are non-empty
\* (line 486); the two "no match" lines are written for an empty match list.
IntegratedReport(forum_given, governance_data, numpy) ==
    LET forum_data == ConvertNumpyTypes(forum_given, numpy)
        referenda == governance_data.referenda
        correlated == ~forum_data.empty /\ ~governance_data.empty
        forum_referendum_matches ==
            IF correlated THEN ForumReferendumMatches(referenda, Len(referenda))
            ELSE << >>
        keyword_matches ==
            IF correlated
            THEN KeywordMatches(TrendingWords(forum_data.trending_keywords),
                                referenda, Len(referenda))
            ELSE << >>
    IN  [called |-> TRUE,
         forum_data |-> forum_given,
         governance_data |-> governance_data,
         numpy |-> numpy,
         high_risk |-> IF governance_data.empty THEN << >> ELSE HighRisk(referenda),
         correlated |-> correlated,
         forum_referendum_matches |-> forum_referendum_matches,
         no_direct_match |-> correlated /\ forum_referendum_matches = << >>,
         keyword_matches |-> keyword_matches,
         no_keyword_match |-> correlated /\ keyword_matches = << >>]

\* generate_integrated_report(forum_data, governance_data), called as
\* run_complete_analysis does when one of the two is non-empty.
GenerateIntegratedReport(shape, governance_data, numpy) ==
    /\ LET forum_data == ForumData(shape)
       IN  /\ ~forum_data.empty \/ ~governance_data.empty
           /\ integrated' = IntegratedReport(forum_data, governance_data, numpy)
    /\ ret' = Returned("generate_integrated_report", 0)
    /\ UNCHANGED <<topics, posts, counters, calls, probe, shard, runs,
                   subscribers, loop, stages>>

\* The responses the reports are made from: posts with and without
\* keywords.
ReportDetails ==
    {Details(<<TagGov>>, PostsTwoDays),
     Details(<<TagDev>>, PostsUntimed),
     Details(<< >>, PostsMentionOnly)}

\* The callers: the type of the keyword entries handed in, and whether
\* numpy can be imported.
ReportCallers == {<<"tuple", TRUE>>, <<"tuple", FALSE>>, <<"dict", TRUE>>}

NextReport ==
    \/ \E data \in ReportDetails : FetchTopicDetails(data)
    \/ FetchTopicsForCategory(PageScenario)
    \/ \E caller \in ReportCallers, governance_data \in GovernanceData :
          GenerateIntegratedReport(caller[1], governance_data, caller[2])

SpecReport == Init /\ [][NextReport]_vars

----------------------------------------------------------------------------
(* The subscribers table: add_subscriber, remove_subscriber and            *)
(* get_subscribers of NewsletterMailer                                      *)

EmailOne == <<"a", "@", "x">>
EmailTwo == <<"b", "@", "x">>
Emails == {EmailOne, EmailTwo}

SubscriberNames == {<< >>, Alice}

\* .eq('email', email)
RowsOf(rows, email) == {i \in DOMAIN rows : rows[i].email = email}

\* A variant that inserts without looking for the email first.
RowsAfterInsert(rows, email, name) ==
    Append(rows, [id |-> Len(rows) + 1, email |-> email, name |-> name,
                  status |-> "active"])

\* Lines 174-199: the table after add_subscriber(email, name).  A row with
\* the email is set to active unless it is (the update goes by the id of the
\* first such row); without one a new active row is inserted.
RowsAfterAdd(rows, email, name) ==
    IF RowsOf(rows, email) # {}
    THEN LET first == CHOOSE i \in RowsOf(rows, email) :
                          \A j \in RowsOf(rows, email) : i <= j
             existing == rows[first]
         IN  IF existing.status # "active"
             THEN [i \in DOMAIN rows |->
                      IF rows[i].id = existing.id
                      THEN [rows[i] EXCEPT !.status = "active"]
                      ELSE rows[i]]
             ELSE rows
    ELSE Append(rows, [id |-> Len(rows) + 1, email |-> email, name |-> name,
                       status |-> "active"])

\* Lines 221-223: every row with the email is set to unsubscribed.
RowsAfterRemove(rows, email) ==
    [i \in DOMAIN rows |->
        IF rows[i].email = email
        THEN [rows[i] EXCEPT !.status = "unsubscribed"]
        ELSE rows[i]]

Logged(op, email, stored, result) ==
    Append(subscribers.log,
           [op |-> op, email |-> email, stored |-> stored, result |-> result])

\* add_subscriber(email, name): True unless the store is not set up or a
\* request raises, which leaves the table as it is.
AddSubscriber(email, name, stored) ==
    /\ Len(subscribers.log) < MaxStoreCalls
    /\ subscribers' = [rows |-> IF stored
                                THEN RowsAfterAdd(subscribers.rows, email, name)
                                ELSE subscribers.rows,
                       log |-> Logged("add_subscriber", email, stored, stored)]
    /\ ret' = Returned("add_subscriber", stored)
    /\ UNCHANGED <<topics, posts, counters, calls, probe, shard, runs,
                   integrated, loop, stages>>

\* remove_subscriber(email): True when the update changed a row; False when
\* it changed none, when the store is not set up or when the request raises.
RemoveSubscriber(email, stored) ==
    /\ Len(subscribers.log) < MaxStoreCalls
    /\ LET result == stored /\ RowsOf(subscribers.rows, email) # {}
       IN  /\ subscribers' = [rows |-> IF stored
                                       THEN RowsAfterRemove(subscribers.rows, email)
                                       ELSE subscribers.rows,
                              log |-> Logged("remove_subscriber", email, stored,
                                             result)]
           /\ ret' = Returned("remove_subscriber", result)
    /\ UNCHANGED <<topics, posts, counters, calls, probe, shard, runs,
                   integrated, loop, stages>>

IsActive(row) == row.status = "active"

\* get_subscribers(): the active rows, or [] when the store is not set up
\* or the request raises.
GetSubscribers(stored) ==
    /\ ret' = Returned("get_subscribers",
                       IF stored THEN SelectSeq(subscribers.rows, IsActive)
                       ELSE << >>)
    /\ UNCHANGED <<topics, posts, counters, calls, probe, shard, runs, side>>

NextMailer ==
    \/ \E email \in Emails, name \in SubscriberNames, stored \in BOOLEAN :
          AddSubscriber(email, name, stored)
    \/ \E email \in Emails, stored \in BOOLEAN : RemoveSubscriber(email, stored)
    \/ \E stored \in BOOLEAN : GetSubscribers(stored)

SpecMailer == Init /\ [][NextMailer]_vars

----------------------------------------------------------------------------
(* collect_data step by step: one step for each request of the page loop   *)
(* of lines 197-204, on a new analyzer                                      *)

ForumPaged ==
    Forum("paged", TRUE, <<JInt(4)>>,
          [c \in {4} |-> <<PageScenario, PageNoTimestamp, PageAges>>],
          [t \in {} |-> 0])

CollectForums == {ForumSmall, ForumTwoCategories, ForumNullViews, ForumDown,
                  ForumPaged}

\* Values of the parameters of collect_data.
CategoryLimits == {0, 1, 4}
TopicLimits == {0, 1, 3, 20}
DetailLimits == {0, 2, 50}

TheForum == CHOOSE forum \in CollectForums : forum.name = loop.forum

\* len(self.category_topics[category_id])
CategoryTopics(category_topics, category_id) ==
    IF category_id \in DOMAIN category_topics THEN category_topics[category_id]
    ELSE 0

\* self.category_topics[category_id].extend(topics), line 82
CategoryTopicsAfter(category_topics, category_id, n) ==
    [c \in DOMAIN category_topics \cup {category_id} |->
        IF c = category_id THEN CategoryTopics(category_topics, c) + n
        ELSE category_topics[c]]

\* collect_data(...) up to the for loop: fetch_categories, and False when
\* it fails.
CollectStart(forum, max_categories, max_topics_per_category, max_topics_details) ==
    /\ loop.pc = "idle"
    /\ loop' = [NoLoop EXCEPT
                   !.pc = IF forum.ok THEN "categories" ELSE "done",
                   !.forum = forum.name,
                   !.max_categories = max_categories,
                   !.max_topics_per_category = max_topics_per_category,
                   !.max_topics_details = max_topics_details,
                   !.categories = IF forum.ok
                                  THEN Head_n(forum.categories, max_categories)
                                  ELSE << >>]
    /\ ret' = IF forum.ok THEN Returned("fetch_categories", TRUE)
              ELSE Returned("collect_data", FALSE)
    /\ UNCHANGED <<topics, posts, counters, calls, probe, shard, runs,
                   integrated, subscribers, stages>>

\* Lines 187-195: the next category of the for loop; one without an id is
\* passed over, another starts its page loop.
EnterCategory ==
    /\ loop.pc = "categories"
    /\ loop.i <= Len(loop.categories)
    /\ loop' = IF Truthy(loop.categories[loop.i])
               THEN [loop EXCEPT !.pc = "pages", !.topics_count = 0, !.page = 0]
               ELSE [loop EXCEPT !.i = @ + 1]
    /\ UNCHANGED <<topics, posts, counters, calls, ret, probe, shard, runs,
                   integrated, subscribers, stages>>

\* A variant that asks for the same page again.
AfterPageSamePage(l, new_topics) ==
    IF new_topics = 0
    THEN [l EXCEPT !.pc = "categories", !.i = @ + 1]
    ELSE [l EXCEPT !.topics_count = @ + new_topics]

\* Lines 199-203: break when the request brought nothing, else count the
\* topics and go to the next page.
AfterPage(l, new_topics) ==
    IF new_topics = 0
    THEN [l EXCEPT !.pc = "categories", !.i = @ + 1]
    ELSE [l EXCEPT !.topics_count = @ + new_topics, !.page = @ + 1]

\* One iteration of the while loop: fetch_topics_for_category(category_id,
\* page), which stores every topic of the page and returns their number, or
\* stores nothing and returns 0 when the request fails.
FetchPage(ok) ==
    /\ loop.pc = "pages"
    /\ loop.topics_count < loop.max_topics_per_category
    /\ LET category_id == loop.categories[loop.i].v
           fetched == IF ok THEN PageOf(TheForum, category_id, loop.page)
                      ELSE << >>
           new_topics == Len(fetched)
           counted == AfterPage(loop, new_topics)
       IN  /\ topics' = topics \o fetched
           /\ loop' = [counted EXCEPT
                          !.requested = Append(@, [category_id |-> category_id,
                                                   page |-> loop.page,
                                                   new_topics |-> new_topics]),
                          !.category_topics =
                              CategoryTopicsAfter(@, category_id, new_topics)]
           /\ ret' = Returned("fetch_topics_for_category", new_topics)
    /\ UNCHANGED <<posts, counters, calls, probe, shard, runs,
                   integrated, subscribers, stages>>

\* The while condition of line 198 is false: on to the next category.
LeaveCategory ==
    /\ loop.pc = "pages"
    /\ loop.topics_count >= loop.max_topics_per_category
    /\ loop' = [loop EXCEPT !.pc = "categories", !.i = @ + 1]
    /\ UNCHANGED <<topics, posts, counters, calls, ret, probe, shard, runs,
                   integrated, subscribers, stages>>

\* The ids fetch_topic_details is called with, lines 225-230.
RECURSIVE DetailRequests(_, _)
DetailRequests(ts, n) ==
    IF n = 0 THEN << >>
    ELSE IF ts[n].id # 0 THEN Append(DetailRequests(ts, n - 1), ts[n].id)
    ELSE DetailRequests(ts, n - 1)

\* Lines 206-236, after the last category: False without topics, else the
\* details of the most engaging topics are fetched and True returned.
CollectDetails ==
    /\ loop.pc = "categories"
    /\ loop.i > Len(loop.categories)
    /\ IF topics = << >>
       THEN /\ ret' = Returned("collect_data", FALSE)
            /\ loop' = [loop EXCEPT !.pc = "done"]
            /\ UNCHANGED <<posts, counters>>
       ELSE IF EngagementError(topics) # "none"
       THEN /\ ret' = [op |-> "collect_data", raised |-> EngagementError(topics),
                       now |-> 0, value |-> FALSE]
            /\ loop' = [loop EXCEPT !.pc = "done"]
            /\ UNCHANGED <<posts, counters>>
       ELSE LET topics_to_analyze ==
                    TopicsToAnalyzeUpTo(topics, loop.max_topics_details)
                after == WithDetailsOf(Self, TheForum, topics_to_analyze, 1,
                                       Len(topics_to_analyze))
            IN  /\ posts' = after.posts
                /\ user_activity' = after.user_activity
                /\ mentions' = after.mentions
                /\ keywords' = after.keywords
                /\ tag_counts' = after.tag_counts
                /\ loop' = [loop EXCEPT
                               !.pc = "done",
                               !.detailed = DetailRequests(topics_to_analyze,
                                                Len(topics_to_analyze))]
                /\ ret' = Returned("collect_data", TRUE)
    /\ UNCHANGED <<topics, calls, probe, shard, runs,
                   integrated, subscribers, stages>>

NextCollect ==
    \/ \E forum \in CollectForums, max_categories \in CategoryLimits,
          max_topics_per_category \in TopicLimits,
          max_topics_details \in DetailLimits :
          CollectStart(forum, max_categories, max_topics_per_category,
                       max_topics_details)
    \/ EnterCategory
    \/ \E ok \in BOOLEAN : FetchPage(ok)
    \/ LeaveCategory
    \/ CollectDetails

SpecCollect == Init /\ [][NextCollect]_vars

----------------------------------------------------------------------------
(* run_full_process of PolkadotCommunityDigest, stage by stage.  The       *)
(* analyzer and mailer methods the stages call are the environment here:   *)
(* each returns something truthy or falsy, or raises.                      *)

\* analyze_data() and the three exports after it, in run_analysis.
AnalysisEnvs == [report : BOOLEAN, raises : BOOLEAN]

\* preview_newsletter(preview_file), in generate_newsletter.
PreviewEnvs == [result : BOOLEAN, raises : BOOLEAN]

\* load_subscribers(), generate_newsletter_content(), send_email() and
\* send_newsletter() of the mailer, in send_newsletter.
SendEnvs ==
    [active_subscribers : 0..1, newsletter_html : BOOLEAN, result : BOOLEAN,
     sent_count : 0..2, raises : BOOLEAN]

PyBool(b) == IF b THEN "True" ELSE "False"

\* run_analysis(), lines 104-151: False without a report, else True.
AnalysisResult(env) ==
    IF env.raises THEN "raised" ELSE PyBool(env.report)

\* generate_newsletter(), lines 153-169
GenerationResult(env) ==
    IF env.raises THEN "raised" ELSE PyBool(env.result)

\* send_newsletter(test_mode), lines 171-216
SendingResult(test_mode, env) ==
    IF env.raises THEN "raised"
    ELSE IF test_mode
    THEN (IF env.active_subscribers = 0 THEN "False"
          ELSE IF ~env.newsletter_html THEN "False"
          ELSE PyBool(env.result))
    ELSE PyBool(env.sent_count > 0)

NextStage(stage) ==
    IF stage = "analysis" THEN "generation"
    ELSE IF stage = "generation" THEN "sending"
    ELSE "idle"

Event(stage, result) == [stage |-> stage, result |-> result]

\* A variant that goes on to the next stage whatever the stage returned.
AfterStageWhatever(st, stage, result) ==
    LET logged == Append(st.log, Event(stage, result))
    IN  IF result = "raised"
        THEN [st EXCEPT !.pc = "idle",
                        !.log = Append(logged, Event("raise", "raised"))]
        ELSE IF stage = "sending"
        THEN [st EXCEPT !.pc = "idle",
                        !.log = Append(logged, Event("return", "True"))]
        ELSE [st EXCEPT !.pc = NextStage(stage), !.log = logged]

\* Lines 222-238: what run_full_process does with the result of a stage.
\* False makes it return False, True takes it to the next stage and, after
\* the last, makes it return True; an exception of the stage leaves
\* run_full_process, which catches nothing.
AfterStage(st, stage, result) ==
    LET logged == Append(st.log, Event(stage, result))
    IN  IF result = "raised"
        THEN [st EXCEPT !.pc = "idle",
                        !.log = Append(logged, Event("raise", "raised"))]
        ELSE IF result = "False"
        THEN [st EXCEPT !.pc = "idle",
                        !.log = Append(logged, Event("return", "False"))]
        ELSE IF stage = "sending"
        THEN [st EXCEPT !.pc = "idle",
                        !.log = Append(logged, Event("return", "True"))]
        ELSE [st EXCEPT !.pc = NextStage(stage), !.log = logged]

\* What the caller of run_full_process has got once it is over.
ProcessReturned ==
    IF stages'.pc # "idle" THEN ret
    ELSE LET last == stages'.log[Len(stages'.log)]
         IN  [op |-> "run_full_process",
              raised |-> IF last.stage = "raise" THEN "Exception" ELSE "none",
              now |-> 0, value |-> last.result = "True"]

\* run_full_process(test_mode) is called.
RunFullProcess(test_mode) ==
    /\ stages.pc = "idle"
    /\ stages.runs < MaxProcessRuns
    /\ stages' = [stages EXCEPT !.pc = "analysis", !.test_mode = test_mode,
                                !.runs = @ + 1,
                                !.log = Append(@, Event("start", PyBool(test_mode)))]
    /\ UNCHANGED <<topics, posts, counters, calls, ret, probe, shard, runs,
                   integrated, subscribers, loop>>

\* Line 222: self.run_analysis()
RunAnalysis(env) ==
    /\ stages.pc = "analysis"
    /\ stages' = AfterStage(stages, "analysis", AnalysisResult(env))
    /\ ret' = ProcessReturned
    /\ UNCHANGED <<topics, posts, counters, calls, probe, shard, runs,
                   integrated, subscribers, loop>>

\* Line 227: self.generate_newsletter()
GenerateNewsletter(env) ==
    /\ stages.pc = "generation"
    /\ stages' = AfterStage(stages, "generation", GenerationResult(env))
    /\ ret' = ProcessReturned
    /\ UNCHANGED <<topics, posts, counters, calls, probe, shard, runs,
                   integrated, subscribers, loop>>

\* Line 232: self.send_newsletter(test_mode)
SendNewsletter(env) ==
    /\ stages.pc = "sending"
    /\ stages' = AfterStage(stages, "sending",
                            SendingResult(stages.test_mode, env))
    /\ ret' = ProcessReturned
    /\ UNCHANGED <<topics, posts, counters, calls, probe, shard, runs,
                   integrated, subscribers, loop>>

NextDigest ==
    \/ \E test_mode \in BOOLEAN : RunFullProcess(test_mode)
    \/ \E env \in AnalysisEnvs : RunAnalysis(env)
    \/ \E env \in PreviewEnvs : GenerateNewsletter(env)
    \/ \E env \in SendEnvs : SendNewsletter(env)

SpecDigest == Init /\ [][NextDigest]_vars

----------------------------------------------------------------------------
(* fetch_topic_details on responses some of whose posts have no content *)

\* The second of three posts has a null "cooked".
PostsNullCooked ==
    << Post(JStr(Alice), BodyScenario, JIso(Now0)),
       PostNullCooked(JStr(Bob), JIso(Now0 - T)),
       Post(JStr(Cy), BodyShortTerms, JIso(Now0 - T)) >>

FetchDetails ==
    {Details(<<TagGov>>, PostsTwoDays),
     Details(<<TagDev>>, PostsNullCooked),
     Details(<< >>, PostsMentionOnly),
     Details(<<TagGov, TagDev>>, PostsUntimed),
     Details(<<TagDev>>, << >>)}

NextFetch ==
    \/ \E data \in FetchDetails : FetchTopicDetails(data)
    \/ FetchTopicDetailsFailed

SpecFetch == Init /\ [][NextFetch]_vars

----------------------------------------------------------------------------
(* Properties *)

\* The last call was analyze() and it returned a non-empty result.
AnalyzeReturned ==
    /\ ret.op = "analyze"
    /\ ret.raised = "none"
    /\ DOMAIN ret.value # {}

\* result is the first min(limit, Len(pairs)) values of pairs put in
\* descending order of key, equal keys in the order they have in pairs: the
\* value at place i of pairs stands at the place given by the number of
\* larger keys plus the number of equal keys before it.
IsStableTop(result, pairs, limit) ==
    /\ Len(result) = Min(limit, Len(pairs))
    /\ \A i \in DOMAIN pairs :
          LET place == Cardinality({j \in DOMAIN pairs : pairs[j].key > pairs[i].key})
                       + Cardinality({j \in 1..(i - 1) : pairs[j].key = pairs[i].key})
                       + 1
          IN  place <= Len(result) => result[place] = pairs[i].val

Unpinned(topic) == topic.pinned # "true"

\* C1: no pinned topic appears in the list _identify_hot_topics returns,
\* whatever its views, post count or last activity.
C1_PinnedExcluded ==
    AnalyzeReturned =>
        \A k \in DOMAIN ret.value.hot_topics :
            \A i \in DOMAIN topics :
                topics[i].id = ret.value.hot_topics[k].id
                    => topics[i].pinned # "true"

\* A pinned topic with more views and posts than any other is held, and the
\* list returned is not empty.
C1_Witness ==
    /\ AnalyzeReturned
    /\ Len(ret.value.hot_topics) > 0
    /\ \E i \in DOMAIN topics :
          /\ topics[i].pinned = "true"
          /\ topics[i].views.v = 5000
          /\ \A k \in DOMAIN ret.value.hot_topics :
                ret.value.hot_topics[k].views < 5000

\* C2: the hot-topics list is in descending order of heat_score, topics of
\* equal heat_score keep the order of the topic list, and the list is the
\* first min(50, number of non-pinned topics) entries of that order.
C2_HotTopicsStableTop50 ==
    AnalyzeReturned =>
        LET hot == ret.value.hot_topics
            kept == SelectSeq(topics, Unpinned)
            pairs == [i \in DOMAIN kept |->
                        [key |-> HotEntry(kept[i], ret.now).heat_score,
                         val |-> HotEntry(kept[i], ret.now)]]
        IN  /\ IsStableTop(hot, pairs, 50)
            /\ \A k \in 1..(Len(hot) - 1) :
                  hot[k].heat_score >= hot[k + 1].heat_score

\* More than 50 non-pinned topics are held, 50 are returned, and two
\* different topics of the list have the same heat_score.
C2_Witness ==
    /\ AnalyzeReturned
    /\ Len(SelectSeq(topics, Unpinned)) > 50
    /\ Len(ret.value.hot_topics) = 50
    /\ \E k \in 1..49 :
          /\ ret.value.hot_topics[k].heat_score
                = ret.value.hot_topics[k + 1].heat_score
          /\ ret.value.hot_topics[k].id # ret.value.hot_topics[k + 1].id

\* C3: for a topic with a parsable last_posted_at,
\*   heat_score = views*0.3 + posts_count*5*0.5 + posts_count*recency*0.2,
\*   recency = max(1, 30 - days)/30, days = (now - last_posted_at)/86400,
\* here multiplied through by 300*TicksPerDay, with the two cases of the max
\* written out; and the scenario (views 1000, posts_count 20, 5 days) gives
\* 1060/3 = 353.33...
C3_HeatFormula ==
    AnalyzeReturned =>
        \A k \in DOMAIN ret.value.hot_topics :
            LET e == ret.value.hot_topics[k]
                age == ret.now - e.last_posted_at.v
            IN  e.last_posted_at.kind = "iso" =>
                  /\ age <= 29 * TicksPerDay =>
                        e.heat_score = 90 * TicksPerDay * e.views
                                       + 750 * TicksPerDay * e.posts_count
                                       + 2 * e.posts_count * (30 * TicksPerDay - age)
                  /\ age >= 29 * TicksPerDay =>
                        e.heat_score = 90 * TicksPerDay * e.views
                                       + 750 * TicksPerDay * e.posts_count
                                       + 2 * e.posts_count * TicksPerDay
                  /\ (e.views = 1000 /\ e.posts_count = 20 /\ age = 5 * TicksPerDay)
                        => 3 * e.heat_score = 1060 * 300 * TicksPerDay

\* The scenario topic is in the list, scored 5 days after its last post, and
\* so is a topic older than 29 days.
C3_Witness ==
    /\ AnalyzeReturned
    /\ \E k \in DOMAIN ret.value.hot_topics :
          LET e == ret.value.hot_topics[k]
          IN  /\ e.last_posted_at.kind = "iso"
              /\ e.views = 1000 /\ e.posts_count = 20
              /\ ret.now - e.last_posted_at.v = 5 * TicksPerDay
              /\ 3 * e.heat_score = 1060 * 300 * TicksPerDay
    /\ \E k \in DOMAIN ret.value.hot_topics :
          LET e == ret.value.hot_topics[k]
          IN  /\ e.last_posted_at.kind = "iso"
              /\ ret.now - e.last_posted_at.v > 29 * TicksPerDay
              /\ e.posts_count > 0

\* C4: the recency factor of a parsable timestamp, one in the future
\* included, lies in [1/30, 1].
C4_RecencyInUnitInterval ==
    probe.applied =>
        /\ 30 * probe.r1 >= RecencyDen
        /\ probe.r1 <= RecencyDen

\* C5: the recency factor does not increase with the age, is exactly 1/30
\* from 29 days on and is never lower.
C5_RecencyMonotoneFloored ==
    probe.applied =>
        /\ probe.d1 <= probe.d2 => probe.r2 <= probe.r1
        /\ probe.d1 >= 29 * TicksPerDay => 30 * probe.r1 = RecencyDen
        /\ 30 * probe.r1 >= RecencyDen

\* The factor of a 28 day old post is above that of a 31 day old one, which
\* is at the floor.
C5_Witness ==
    /\ probe.applied
    /\ probe.d1 = 28 * TicksPerDay
    /\ probe.d2 = 31 * TicksPerDay
    /\ probe.r2 < probe.r1
    /\ 30 * probe.r2 = RecencyDen

NoTimestamp(lp) == lp.kind # "iso"

\* C6: with topics whose last_posted_at is absent, null, empty, not a string
\* or not valid ISO-8601, _identify_hot_topics does not raise and scores
\* each of them with recency_factor 0.5 (topics whose views or posts_count
\* are null set aside).
C6_BadTimestampNeverRaises ==
    (/\ ret.op = "analyze"
     /\ topics # << >> /\ posts # << >>
     /\ \A i \in DOMAIN topics :
           topics[i].views.kind # "null" /\ topics[i].posts_count.kind # "null")
    => /\ ret.raised = "none"
       /\ \A k \in DOMAIN ret.value.hot_topics :
             LET e == ret.value.hot_topics[k]
             IN  NoTimestamp(e.last_posted_at) =>
                    10 * e.heat_score
                        = HeatDen * (3 * e.views + 25 * e.posts_count + e.posts_count)

\* C7: every heat_score of the list returned is non-negative.
C7_HeatNonNegative ==
    AnalyzeReturned =>
        \A k \in DOMAIN ret.value.hot_topics :
            ret.value.hot_topics[k].heat_score >= 0

\* The list holds a topic without views whose last post is 500 days old.
C7_Witness ==
    /\ AnalyzeReturned
    /\ \E k \in DOMAIN ret.value.hot_topics :
          LET e == ret.value.hot_topics[k]
          IN  /\ e.views = 0
              /\ e.last_posted_at.kind = "iso"
              /\ ret.now - e.last_posted_at.v >= 500 * TicksPerDay

\* The number of stored posts written by username.
PostsBy(username) ==
    Cardinality({i \in DOMAIN posts :
                    /\ posts[i].username.kind = "str"
                    /\ posts[i].username.v = username})

\* C8: every emitted user is a key of the mention or the activity counter,
\* its counts are those of the counters (0 when missing), its
\* influence_score is 3*mention_count + post_count, and that is > 0.
C8_InfluenceScore ==
    AnalyzeReturned =>
        \A k \in DOMAIN ret.value.influential_users :
            LET e == ret.value.influential_users[k]
            IN  /\ e.username \in KeySet(mentions) \cup KeySet(user_activity)
                /\ e.mention_count = Count(mentions, e.username)
                /\ e.post_count = PostsBy(e.username)
                /\ e.influence_score = 3 * e.mention_count + e.post_count
                /\ e.influence_score > 0

\* The user with 4 mentions and 10 posts is emitted with score 22, beside a
\* user who is only mentioned.
C8_Witness ==
    /\ AnalyzeReturned
    /\ \E k \in DOMAIN ret.value.influential_users :
          LET e == ret.value.influential_users[k]
          IN  e.mention_count = 4 /\ e.post_count = 10 /\ e.influence_score = 22
    /\ \E k \in DOMAIN ret.value.influential_users :
          LET e == ret.value.influential_users[k]
          IN  e.mention_count > 0 /\ e.post_count = 0

\* C9: the influential-users list is in descending order of
\* influence_score, users of equal score in the order in which their names
\* entered the counters, and holds at most 50 entries.
C9_InfluentialStableEntryOrder ==
    AnalyzeReturned =>
        LET names == UsernamesInEntryOrder
            pairs == [i \in DOMAIN names |->
                        [key |-> 3 * Count(mentions, names[i])
                                 + Count(user_activity, names[i]),
                         val |-> InfluenceEntry(names[i])]]
        IN  /\ IsStableTop(ret.value.influential_users, pairs, 50)
            /\ Len(ret.value.influential_users) <= 50

\* C10: the active-users list is the first 50 of the users in descending
\* order of post_count (equal counts in the order of the activity
\* counter), whatever the mention counts are, and analyze() returns it
\* beside the influential-users list.
C10_ActiveUsersByPostCount ==
    AnalyzeReturned =>
        LET active == ret.value.active_users
            pairs == [i \in DOMAIN user_activity |->
                        [key |-> PostsBy(user_activity[i].key),
                         val |-> [username |-> user_activity[i].key,
                                  post_count |-> PostsBy(user_activity[i].key)]]]
        IN  /\ {"active_users", "influential_users"} \subseteq DOMAIN ret.value
            /\ IsStableTop(active, pairs, 50)
            /\ \A k \in 1..(Len(active) - 1) :
                  active[k].post_count >= active[k + 1].post_count
            /\ \A i \in DOMAIN user_activity :
                  (\A k \in DOMAIN active : active[k].username # user_activity[i].key)
                      => \A k \in DOMAIN active :
                            active[k].post_count >= user_activity[i].count

\* More than 50 users have posted, 50 are listed, and the list puts a user
\* before one who has fewer posts but the higher influence score.
C10_Witness ==
    /\ AnalyzeReturned
    /\ Len(user_activity) > 50
    /\ Len(ret.value.active_users) = 50
    /\ \E a, b \in DOMAIN ret.value.active_users :
          LET ua == ret.value.active_users[a]
              ub == ret.value.active_users[b]
          IN  /\ a < b
              /\ ua.post_count > ub.post_count
              /\ 3 * Count(mentions, ua.username) + ua.post_count
                    < 3 * Count(mentions, ub.username) + ub.post_count

----------------------------------------------------------------------------
(* Properties of the text rules *)

\* The tokens of a post before any filter: the text without its tags, lower
\* case, every other character than a word character or white space taken
\* as a separator.
PostTokens(post) == WordTokenize(ReplaceSpecial(Lower(StripTags(post.cooked))))

\* How often word occurs as a token of the stored posts.
TokenOccurrences(word) ==
    Cardinality(UNION {LET t == PostTokens(posts[i])
                       IN  {<<i, k>> : k \in {j \in DOMAIN t : t[j] = word}} :
                       i \in DOMAIN posts})

AllPostTokens == UNION {LET t == PostTokens(posts[i])
                        IN  {t[k] : k \in DOMAIN t} : i \in DOMAIN posts}

Xcm == <<"x", "c", "m">>
Web3 == <<"w", "e", "b", "3">>
Vote == <<"v", "o", "t", "e">>
Check == <<"c", "h", "e", "c", "k">>
Treasury == <<"t", "r", "e", "a", "s", "u", "r", "y">>
About == <<"a", "b", "o", "u", "t">>

\* C11: every token that is in the technical-term allowlist and is no
\* stopword is counted each time it occurs, whatever its length (the
\* 3-character term xcm included).
C11_AllowlistBypassesLength ==
    \A word \in AllPostTokens :
        (word \in TechnicalTerms /\ word \notin StopWords)
            => Count(keywords, word) = TokenOccurrences(word)

\* C12: the keyword counter holds no key of length <= 3 and no key of
\* length <= 4 that is outside the allowlist: a token outside the allowlist
\* is counted only if it is longer than 4 characters.
C12_ShortKeysAllowlisted ==
    \A i \in DOMAIN keywords :
        /\ Len(keywords[i].key) <= 3 => keywords[i].key \in TechnicalTerms
        /\ Len(keywords[i].key) <= 4 => keywords[i].key \in TechnicalTerms
        /\ keywords[i].key \notin TechnicalTerms => Len(keywords[i].key) > 4

\* The posts hold the 4-character tokens web3 (allowlisted) and vote (not
\* allowlisted): the first is counted, the second is not, and a longer token
\* outside the allowlist is.
C12_Witness ==
    /\ {Web3, Vote, Check} \subseteq AllPostTokens
    /\ Count(keywords, Web3) > 0
    /\ Count(keywords, Vote) = 0
    /\ Count(keywords, Check) > 0

\* C13 as stated: no stopword is ever a key of the keyword counter, and for
\* the body <p>Check @alice and @bob re the <b>treasury</b> proposal</p> the
\* counted keywords include treasury and do not include check.
C13_StopwordPrecedenceAndCheck ==
    /\ \A i \in DOMAIN keywords : keywords[i].key \notin StopWords
    /\ (\E i \in DOMAIN posts : posts[i].cooked = BodyScenario)
          => Count(keywords, Treasury) > 0 /\ Count(keywords, Check) = 0

\* C13 amended: no stopword is ever a key of the keyword counter, whatever
\* its length; for the scenario body the counted keywords include treasury,
\* and check as well (it is 5 characters long and no stopword).
C13_StopwordPrecedence ==
    /\ \A i \in DOMAIN keywords : keywords[i].key \notin StopWords
    /\ \A word \in AllPostTokens \cap StopWords : Count(keywords, word) = 0
    /\ (\E i \in DOMAIN posts : posts[i].cooked = BodyScenario)
          => Count(keywords, Treasury) > 0 /\ Count(keywords, Check) > 0

\* The scenario body and a body with the 5-character stopword "about" have
\* been processed, and tokens of the latter body are counted.
C13_Witness ==
    /\ \E i \in DOMAIN posts : posts[i].cooked = BodyScenario
    /\ About \in AllPostTokens
    /\ Count(keywords, About) = 0
    /\ Count(keywords, <<"c", "h", "a", "i", "n">>) > 0

\* The '<...>' spans of s as pairs <<first, last>>: each ">" closes the span
\* that opens at the first "<" after the previous ">", provided a character
\* lies between the two.
TagSpans(s) ==
    {sp \in UNION {{<<a, b>> : a \in {a \in 1..(b - 2) : s[a] = "<"}} :
                       b \in {b \in DOMAIN s : s[b] = ">"}} :
        /\ \A j \in sp[1]..(sp[2] - 1) : s[j] # ">"
        /\ \A j \in 1..(sp[1] - 1) :
              s[j] = "<" => \E m \in j..(sp[1] - 1) : s[m] = ">"}

InsideSpan(spans, k) == \E sp \in spans : sp[1] <= k /\ k <= sp[2]

InsideTag(s, k) == InsideSpan(TagSpans(s), k)

\* The positions of s where a mention starts: an "@" outside every span
\* with a word character after it.
MentionSites(s) ==
    LET spans == TagSpans(s)
    IN  {k \in DOMAIN s :
            /\ s[k] = "@"
            /\ ~InsideSpan(spans, k)
            /\ k < Len(s)
            /\ s[k + 1] \in WordChars}

\* The username mentioned at site k: the word characters after the "@", up
\* to the first other character.
NameAt(s, k) ==
    LET e == CHOOSE e \in (k + 1)..Len(s) :
                 /\ \A j \in (k + 1)..e : s[j] \in WordChars
                 /\ e = Len(s) \/ s[e + 1] \notin WordChars
    IN  SubSeq(s, k + 1, e)

\* All mentions of the stored posts, as pairs <<post, site>>.
AllMentionSites ==
    UNION {{<<i, k>> : k \in MentionSites(posts[i].cooked)} : i \in DOMAIN posts}

\* C14: the mention counter credits exactly the usernames that follow an
\* "@" outside the '<...>' spans of a post body, 1 per occurrence, each
\* name ending where the word characters end: text inside a tag yields no
\* mention and no name or token runs across a tag.
C14_MentionsOutsideTags ==
    /\ LET names == {<<m, NameAt(posts[m[1]].cooked, m[2])>> : m \in AllMentionSites}
       IN  /\ \A i \in DOMAIN mentions :
                 mentions[i].count
                     = Cardinality({n \in names : n[2] = mentions[i].key})
           /\ \A n \in names : Count(mentions, n[2]) > 0
    /\ \A i \in DOMAIN keywords :
          keywords[i].key # <<"g", "o", "v", "e", "r", "n", "a", "n", "c", "e">>

\* A body with an "@" inside a tag and a name cut by a tag has been
\* processed: the name inside the tag is not credited, the name before the
\* tag is, and so are the two tokens a tag separates.
C14_Witness ==
    /\ \E i \in DOMAIN posts :
          /\ posts[i].cooked = BodyTags
          /\ \E k \in DOMAIN posts[i].cooked :
                posts[i].cooked[k] = "@" /\ InsideTag(posts[i].cooked, k)
    /\ Count(mentions, Cy) = 0
    /\ Count(mentions, Alice) = 1
    /\ Count(keywords, <<"g", "o", "v", "e", "r">>) > 0
    /\ Count(keywords, <<"n", "a", "n", "c", "e">>) > 0

----------------------------------------------------------------------------
(* Properties of the counters *)

\* Every key of counter c is a key of d, with a count that is not lower.
NeverBelow(c, d) == \A i \in DOMAIN c : Count(d, c[i].key) >= c[i].count

\* C15: across fetch_topic_details steps (which run analyze_post_content
\* and extract_keywords on every post) no count of the keyword, tag or
\* mention counter decreases and no key is removed, and the analysis
\* methods leave the counters as they are.
C15_CountersNeverDecrease ==
    [][/\ NeverBelow(keywords, keywords')
       /\ NeverBelow(tag_counts, tag_counts')
       /\ NeverBelow(mentions, mentions')
       /\ ret'.op \in {"analyze", "_analyze_activity_timeline"}
             => counters' = counters]_vars

\* After several responses a keyword, a tag and a username have each been
\* counted more than once, and analyze() has run on them.
C15_Witness ==
    /\ ret.op = "analyze"
    /\ ret.raised = "none"
    /\ DOMAIN ret.value # {}
    /\ \E i \in DOMAIN keywords : keywords[i].count > 2
    /\ \E i \in DOMAIN tag_counts : tag_counts[i].count > 1
    /\ \E i \in DOMAIN mentions : mentions[i].count > 1

\* The counts of c and d added key by key equal those of sum.
IsKeywiseSum(c, d, sum) ==
    \A k \in KeySet(c) \cup KeySet(d) \cup KeySet(sum) :
        Count(c, k) + Count(d, k) = Count(sum, k)

\* C16: once every post of a batch has been processed, in whatever order
\* and however the posts were shared out between two fresh counters, the
\* mention and keyword counts of the two added key by key are those of one
\* fresh counter that took the posts in list order.
C16_CountsOrderAndPartitionFree ==
    shard.done = 1..BatchLen =>
        /\ IsKeywiseSum(mentions, shard.mentions,
                        MentionsAfter(<< >>, shard.batch, 1, BatchLen))
        /\ IsKeywiseSum(keywords, shard.keywords,
                        KeywordsAfter(<< >>, shard.batch, 1, BatchLen))

\* A batch of different posts is done, each analyzer took a part of it, this
\* one against the list order, and a username and a keyword were counted by
\* both.
C16_Witness ==
    /\ shard.done = 1..BatchLen
    /\ shard.batch[1] # shard.batch[2]
    /\ Len(keywords) > 0 /\ Len(shard.keywords) > 0
    /\ Len(mentions) > 1
    /\ Keys(mentions) # Keys(MentionsAfter(<< >>, shard.batch, 1, BatchLen))
    /\ KeySet(keywords) \cap KeySet(shard.keywords) # {}
    /\ KeySet(mentions) \cap KeySet(shard.mentions) # {}

----------------------------------------------------------------------------
(* Properties of runs *)

\* C17: no derived entity carries state across runs: two finished runs of
\* the same integration object on the same forum content, analysed at the
\* same time, return identical reports (counts and rankings).
C17_RunsIdempotent ==
    \A i, j \in DOMAIN runs :
        (/\ runs[i].done /\ runs[j].done
         /\ runs[i].forum = runs[j].forum
         /\ runs[i].now = runs[j].now)
        => runs[i].report = runs[j].report

----------------------------------------------------------------------------
(* Properties of the timeline *)

\* created_at is a timestamp in ISO-8601 form.
ValidCreatedAt(post) == post.created_at.kind = "iso"

\* created_at is missing, null, an empty string or a string that is no
\* ISO-8601 timestamp.
UnusableCreatedAt(post) ==
    \/ post.created_at.kind \in {"absent", "null", "badstr"}
    \/ post.created_at = JEmptyStr

\* Every stored post has a created_at of one of these two sorts.
TimestampsAsSpecified ==
    \A i \in DOMAIN posts : ValidCreatedAt(posts[i]) \/ UnusableCreatedAt(posts[i])

TimelineReturned == ret.op = "_analyze_activity_timeline" /\ ret.raised = "none"

DayOf(post) == post.created_at.v \div TicksPerDay

PostsOfDay(day) ==
    {i \in DOMAIN posts : ValidCreatedAt(posts[i]) /\ DayOf(posts[i]) = day}

RECURSIVE SumOfCounts(_, _)
SumOfCounts(timeline, n) ==
    IF n = 0 THEN 0 ELSE timeline[n].count + SumOfCounts(timeline, n - 1)

\* timeline has one entry for each day with a validly timestamped post and
\* no other, in strictly ascending order of date, each with the number of
\* posts of its day, and the counts add up to the number of such posts.
IsDailyTimeline(timeline) ==
    /\ \A k \in DOMAIN timeline :
          /\ timeline[k].count = Cardinality(PostsOfDay(timeline[k].date))
          /\ timeline[k].count > 0
    /\ \A i \in DOMAIN posts :
          ValidCreatedAt(posts[i])
              => \E k \in DOMAIN timeline : timeline[k].date = DayOf(posts[i])
    /\ \A k \in 1..(Len(timeline) - 1) : timeline[k].date < timeline[k + 1].date
    /\ SumOfCounts(timeline, Len(timeline))
          = Cardinality({i \in DOMAIN posts : ValidCreatedAt(posts[i])})

ValidPosts == SelectSeq(posts, ValidCreatedAt)

----------------------------------------------------------------------------
(* Properties of the integrated report *)

\* The keywords handed to generate_integrated_report, as a set.
GivenWords ==
    {integrated.forum_data.trending_keywords.items[i].key :
        i \in DOMAIN integrated.forum_data.trending_keywords.items}

GivenReferenda ==
    {integrated.governance_data.referenda[n] :
        n \in DOMAIN integrated.governance_data.referenda}

\* The correlation step of the last report ran: both arguments had data.
Correlated == integrated.called /\ integrated.correlated

\* C21: the keyword matcher emits exactly the pairs (keyword, referendum)
\* in which the lower-cased keyword of the trending-keyword list is a
\* substring of the lower-cased composed text of the referendum, and no
\* match for an empty keyword list.
C21_KeywordMatchesExact ==
    Correlated =>
        /\ {<<integrated.keyword_matches[i].keyword,
              integrated.keyword_matches[i].referendum_id>> :
                i \in DOMAIN integrated.keyword_matches}
             = {pair \in GivenWords \X {ref.index : ref \in GivenReferenda} :
                  \E ref \in GivenReferenda :
                      /\ ref.index = pair[2]
                      /\ ref.decoded # NoDecodedCall
                      /\ IsSubstring(Lower(pair[1]),
                                     Lower(ProposalText(ref.decoded)))}
        /\ GivenWords = {} => integrated.keyword_matches = << >>

AssociatedTopics(ref) ==
    IF ref.forum_data.kind = "list" THEN ref.forum_data.v ELSE << >>

\* The number of topics associated with the referenda before the n-th.
RECURSIVE TopicsBefore(_, _)
TopicsBefore(referenda, n) ==
    IF n = 1 THEN 0
    ELSE TopicsBefore(referenda, n - 1) + Len(AssociatedTopics(referenda[n - 1]))

RiskRank(level) == CHOOSE i \in DOMAIN RiskLevels : RiskLevels[i] = level

FactorSet(ref) ==
    {ref.risk_analysis.risk_factors[i] : i \in DOMAIN ref.risk_analysis.risk_factors}

ComposedText(ref) ==
    IF ref.decoded = NoDecodedCall THEN << >> ELSE ProposalText(ref.decoded)

----------------------------------------------------------------------------
(* Properties of analyze() as a boundary *)

\* Every field of the stored topics and posts is missing, null or a value
\* of its type: a number for views and posts_count, a string for the
\* timestamps.
FieldsMissingOrNull ==
    /\ \A i \in DOMAIN topics :
          /\ topics[i].views.kind \in {"absent", "null", "int"}
          /\ topics[i].posts_count.kind \in {"absent", "null", "int"}
          /\ topics[i].last_posted_at.kind
                \in {"absent", "null", "str", "badstr", "iso"}
    /\ \A i \in DOMAIN posts :
          posts[i].created_at.kind \in {"absent", "null", "str", "badstr", "iso"}

\* C23: analyze() never raises for a batch whose fields may be missing or
\* null: it returns a result, with the defaults in the place of the
\* missing values.
C23_AnalyzeNeverRaises ==
    (ret.op = "analyze" /\ FieldsMissingOrNull) => ret.raised = "none"

NoData == topics = << >> \/ posts = << >>

\* C24: analyze() returns the empty result exactly when the topic list or
\* the post list is empty, and for every other batch it returns a result
\* that holds the metrics and the rankings.
C24_EmptyResultIffNoData ==
    ret.op = "analyze" =>
        /\ ret.raised = "none"
        /\ ret.value = EmptyDict <=> NoData
        /\ ~NoData =>
              {"metrics", "hot_topics", "active_users", "influential_users",
               "trending_keywords", "popular_tags"} \subseteq DOMAIN ret.value

----------------------------------------------------------------------------
(* Properties of the subscribers table *)

\* The last call for email that reached the store, or "none".
LastStoredCall(log, email) ==
    LET at == {k \in DOMAIN log : log[k].email = email /\ log[k].stored}
    IN  IF at = {} THEN "none"
        ELSE log[CHOOSE k \in at : \A j \in at : j <= k].op

\* One row at most for each email, active exactly when the last call for
\* the email that reached the store was add_subscriber.
OneRowPerEmail(table) ==
    \A email \in Emails :
        /\ Cardinality(RowsOf(table.rows, email)) <= 1
        /\ (\E i \in RowsOf(table.rows, email) : table.rows[i].status = "active")
              <=> LastStoredCall(table.log, email) = "add_subscriber"

\* C26: after every add_subscriber or remove_subscriber call the table has
\* at most one row per email, active exactly when the last call for that
\* email that reached the store was add_subscriber; adding an unsubscribed
\* email re-activates its row and inserts none, adding an active email
\* changes nothing, and removing an unknown email returns False and changes
\* nothing.
C26_OneRowPerEmail ==
    [][Len(subscribers'.log) = Len(subscribers.log) + 1 =>
          LET call == subscribers'.log[Len(subscribers'.log)]
              had == RowsOf(subscribers.rows, call.email)
          IN  /\ OneRowPerEmail(subscribers')
              /\ (call.op = "add_subscriber" /\ call.stored /\ had # {})
                    => /\ Len(subscribers'.rows) = Len(subscribers.rows)
                       /\ \A i \in DOMAIN subscribers.rows :
                             /\ subscribers'.rows[i].id = subscribers.rows[i].id
                             /\ subscribers'.rows[i].name = subscribers.rows[i].name
                       /\ call.result
                       /\ (\A i \in had : subscribers.rows[i].status = "active")
                             => subscribers'.rows = subscribers.rows
              /\ (call.op = "remove_subscriber" /\ had = {})
                    => ~call.result /\ subscribers'.rows = subscribers.rows
              /\ ~call.stored => subscribers'.rows = subscribers.rows]_vars

\* An email was added, removed and added again, with another name: the
\* table has its single row, active, under the first name.
C26_Witness ==
    /\ Len(subscribers.log) = 3
    /\ \A k \in 1..3 : subscribers.log[k].email = EmailOne /\ subscribers.log[k].stored
    /\ subscribers.log[2].op = "remove_subscriber"
    /\ subscribers.log[3].op = "add_subscriber"
    /\ Len(subscribers.rows) = 1
    /\ subscribers.rows[1].status = "active"
    /\ subscribers.rows[1].name = << >>

----------------------------------------------------------------------------
(* Properties of collect_data *)

\* The categories a page was requested for.
RequestedCategories == {loop.requested[k].category_id : k \in DOMAIN loop.requested}

\* C27: collect_data keeps to its limits: no more than
\* max_topics_per_category topics are stored for a category, pages are
\* requested for no more than max_categories categories and details for no
\* more than max_topics_details topics.
C27_LimitsRespected ==
    loop.pc # "idle" =>
        /\ \A c \in DOMAIN loop.category_topics :
              loop.category_topics[c] <= loop.max_topics_per_category
        /\ Cardinality(RequestedCategories) <= loop.max_categories
        /\ Len(loop.detailed) <= loop.max_topics_details

\* The requests made for category_id among the first n.
RequestsFor(requested, category_id, n) ==
    {k \in 1..n : requested[k].category_id = category_id}

\* C28: every iteration of the page loop starts below the limit and either
\* receives no topic and leaves the loop or raises the running count; the
\* pages of a category are requested as 0, 1, 2, ... and none twice; and no
\* category is asked for more pages than max_topics_per_category.
C28_PageLoopTerminates ==
    [][Len(loop'.requested) = Len(loop.requested) + 1 =>
          LET n == Len(loop'.requested)
              request == loop'.requested[n]
              earlier == RequestsFor(loop'.requested, request.category_id, n - 1)
          IN  /\ loop.pc = "pages"
              /\ loop.topics_count < loop.max_topics_per_category
              /\ request.page = Cardinality(earlier)
              /\ \A k \in earlier : loop'.requested[k].page < request.page
              /\ IF request.new_topics = 0
                 THEN loop'.pc # "pages"
                 ELSE /\ loop'.pc = "pages"
                      /\ loop'.topics_count > loop.topics_count
              /\ Cardinality(earlier) + 1 <= loop.max_topics_per_category]_vars

\* Three pages were requested for one category, the last of them after the
\* count had grown twice, and the collection went on to its end.
C28_Witness ==
    /\ loop.pc = "done"
    /\ \E k \in DOMAIN loop.requested :
          /\ loop.requested[k].page = 2
          /\ loop.requested[k].new_topics > 0
    /\ \E k \in DOMAIN loop.requested : loop.requested[k].new_topics = 0

----------------------------------------------------------------------------
(* Properties of run_full_process *)

Succeeded(log, k, stage) == k >= 1 /\ log[k] = Event(stage, "True")

\* C29: the stages of run_full_process run in the order analysis,
\* generation, sending, each right after the success of the one before it
\* (analysis right after the call), and run_full_process returns True
\* exactly when the three of them returned True.
C29_StagesInOrder ==
    LET log == stages.log
    IN  \A k \in DOMAIN log :
           /\ log[k].stage = "analysis" => k > 1 /\ log[k - 1].stage = "start"
           /\ log[k].stage = "generation" => Succeeded(log, k - 1, "analysis")
           /\ log[k].stage = "sending"
                => /\ Succeeded(log, k - 1, "generation")
                   /\ Succeeded(log, k - 2, "analysis")
           /\ log[k] = Event("return", "True")
                => /\ Succeeded(log, k - 1, "sending")
                   /\ Succeeded(log, k - 2, "generation")
                   /\ Succeeded(log, k - 3, "analysis")
           /\ Succeeded(log, k, "sending")
                => k < Len(log) /\ log[k + 1] = Event("return", "True")
           /\ log[k] = Event("return", "True") /\ k = Len(log)
                => ret.op = "run_full_process" /\ ret.value = TRUE
           /\ log[k] = Event("return", "False") /\ k = Len(log)
                => ret.op = "run_full_process" /\ ret.value = FALSE

\* Two runs: the first stopped at a failed generation and returned False
\* without sending, the second went through the three stages and returned
\* True.
C29_Witness ==
    /\ Len(stages.log) = 9
    /\ stages.log[3] = Event("generation", "False")
    /\ stages.log[4] = Event("return", "False")
    /\ stages.log[8] = Event("sending", "True")
    /\ stages.log[9] = Event("return", "True")
    /\ ret.value = TRUE

----------------------------------------------------------------------------
(* Properties of fetch_topic_details *)

\* The stored posts that have a username.
PostsWithUsername(ps) == {i \in DOMAIN ps : Truthy(ps[i].username)}

\* C30: after every fetch_topic_details call the user_activity counts add
\* up to the number of stored posts with a username and each is at least 1,
\* and a call that failed has left the posts and the user_activity,
\* mention, keyword and tag counters as they were.
C30_FailedFetchChangesNothing ==
    [][(ret'.op = "fetch_topic_details" /\ calls' = calls + 1) =>
          /\ SumOfCounts(user_activity', Len(user_activity'))
                = Cardinality(PostsWithUsername(posts'))
          /\ \A k \in DOMAIN user_activity' : user_activity'[k].count >= 1
          /\ ret'.failed => UNCHANGED <<posts, user_activity, mentions,
                                        keywords, tag_counts>>]_vars

====
